---- MODULE Spec2Model ----
(***************************************************************************)
(* A model of agent-evals' live-probe execution engine: the bounded-       *)
(* concurrency runner RunLiveProbes (internal/probes), the probe generator *)
(* GenerateProbes with its call-budget truncation, and the HTTP retry      *)
(* helper doWithRetry (internal/provider).                                 *)
(***************************************************************************)
EXTENDS Integers, Sequences, FiniteSets, TLC

VARIABLES
    agentIDs,      \* RunLiveProbes: the IDs of the loaded agents (keys of agentMap/results)
    questions,     \* RunLiveProbes: the submitted []ProbeQuestion
    cfg,           \* the RunConfig argument, which RunLiveProbes completes with the defaults
    hasProgress,   \* progress != nil
    budget,        \* the --probe-budget handed to GenerateProbes (0 when the list is given directly)
    ctxCancelled,  \* the shared context is cancelled
    dpc,           \* the dispatcher's position in RunLiveProbes
    qi,            \* the dispatcher's loop index into questions (1-based)
    wg,            \* sync.WaitGroup counter
    sem,           \* number of tokens in the sem channel
    mu,            \* holder of the mutex (0: unlocked, else the task's index)
    pc,            \* each probe task's position
    run,           \* each task's loop variable i
    ret,           \* each task's last (resp, err) from Complete: "ok", "err" or "none"
    responses,     \* each task's local responses slice
    totalCalls,    \* shared counter
    completed,     \* shared counter
    results,       \* agent ID -> AgentProbeResults
    progressLog,   \* the invocations of the progress callback, in order
    report,        \* the returned LiveProbeReport (TotalCalls, Budget); NoReport before the return
    maxRetries,    \* doWithRetry: the maxRetries argument
    attempt,       \* doWithRetry: the loop variable
    rpc,           \* doWithRetry: position ("idle", "do", "wait", "returned")
    calls,         \* doWithRetry: the outcome of each client.Do so far, in order
    waits,         \* doWithRetry: the durations handed to time.After so far, in seconds
    reqCtxDone,    \* doWithRetry: ctx is cancelled
    retResp,       \* doWithRetry: the returned *http.Response, or "nil"
    retErr,        \* doWithRetry: the returned error ("nil", "transport" or "ctx")
    gen,           \* a call of GenerateProbes: its arguments, then also its result
    scoring,       \* a call of ScoreAgentProbes: its argument, then also the scored result
    domains,       \* a call of ExtractDomains: its arguments, then also its result
    overlap,       \* a call of computeOverlap: its arguments, then also its result
    gaps,          \* a call of FindGaps: its arguments, then also its result
    overall        \* the overall score of RunStaticAnalysis: the issues, then also the score

rvars == <<agentIDs, questions, cfg, hasProgress, budget, ctxCancelled, dpc, qi, wg, sem, mu,
           pc, run, ret, responses, totalCalls, completed, results, progressLog, report>>

xvars == <<maxRetries, attempt, rpc, calls, waits, reqCtxDone, retResp, retErr>>

fvars == <<gen, scoring, domains, overlap, gaps, overall>>

vars == <<rvars, xvars, fvars>>

(* A function that is not being called. *)
NoCall == [pc |-> "idle"]

FunctionsIdle ==
    /\ gen = NoCall
    /\ scoring = NoCall
    /\ domains = NoCall
    /\ overlap = NoCall
    /\ gaps = NoCall
    /\ overall = NoCall

----------------------------------------------------------------------------
(* Bounds of the model *)

MaxQuestions == 2
MaxStochasticRuns == 2
MaxConcurrency == 2
MaxCalls == 6
MaxRetries == 3
MaxBudget == 7
MaxBudgetRuns == 6
MaxGenAgents == 2
MaxGenBudget == 60
MaxScoreDetails == 2
MaxScoreResponses == 2
MaxPromptLen == 3
MaxKeywords == 3
MaxOverlapDomains == 3
MaxGapDomains == 2
MaxIssues == 6

(* Program constants *)

DefaultStochasticRuns == 5
DefaultBatchDelay == 300      \* milliseconds
DefaultConcurrency == 1
StochasticTemperature == 7    \* 0.7, in tenths

----------------------------------------------------------------------------
(* RunLiveProbes: configuration defaults *)

RunConfig(n, d, k) == [StochasticRuns |-> n, BatchDelay |-> d, Concurrency |-> k]

(* A faulty variant of the defaults: the delay is left at zero. *)
RunConfigDefaultsNoDelay(c) ==
    RunConfig(IF c.StochasticRuns = 0 THEN DefaultStochasticRuns ELSE c.StochasticRuns,
              c.BatchDelay,
              IF c.Concurrency = 0 THEN DefaultConcurrency ELSE c.Concurrency)

RunConfigDefaults(c) ==
    RunConfig(IF c.StochasticRuns = 0 THEN DefaultStochasticRuns ELSE c.StochasticRuns,
              IF c.BatchDelay = 0 THEN DefaultBatchDelay ELSE c.BatchDelay,
              IF c.Concurrency = 0 THEN DefaultConcurrency ELSE c.Concurrency)

Tasks == 1..Len(questions)

Known(t) == questions[t].TargetAgent \in agentIDs

(* The outcomes of one client.Complete call: a response, an error, or a
   fault. A client built on net/http returns an error once its context is
   cancelled. *)
CompleteOutcomes == IF ctxCancelled THEN {"err"} ELSE {"ok", "err", "panic"}

ResponseRecord(i, temp, err) == [Run |-> i, Temperature |-> temp, Error |-> err]

ProbeDetail(probe, resps) ==
    [ProbeID |-> probe.ID, ProbeType |-> probe.ProbeType, Responses |-> resps]

EmptyResults == [ProbesRun |-> 0, Details |-> <<>>]

NoReport == [TotalCalls |-> 0, Budget |-> 0]

----------------------------------------------------------------------------
(* RunLiveProbes: the dispatch loop *)

ApplyDefaults ==
    /\ dpc = "defaults"
    /\ cfg' = RunConfigDefaults(cfg)
    /\ dpc' = "loop"
    /\ UNCHANGED <<xvars, fvars, agentIDs, questions, hasProgress, budget, ctxCancelled, qi, wg, sem,
                   mu, pc, run, ret, responses, totalCalls, completed, results, progressLog, report>>

DispatchNext ==
    /\ dpc = "loop"
    /\ IF qi > Len(questions)
         THEN /\ dpc' = "wait"
              /\ UNCHANGED <<qi, wg>>
         ELSE IF ~Known(qi)
                THEN /\ qi' = qi + 1
                     /\ UNCHANGED <<dpc, wg>>
                ELSE /\ wg' = wg + 1
                     /\ dpc' = "acquire"
                     /\ UNCHANGED qi
    /\ UNCHANGED <<xvars, fvars, agentIDs, questions, cfg, hasProgress, budget, ctxCancelled, sem, mu, pc, run,
                   ret, responses, totalCalls, completed, results, progressLog, report>>

DispatchStartUnbounded ==
    /\ dpc = "acquire"
    /\ sem' = sem + 1
    /\ pc' = [pc EXCEPT ![qi] = "det_wait"]
    /\ qi' = qi + 1
    /\ dpc' = "loop"
    /\ UNCHANGED <<xvars, fvars, agentIDs, questions, cfg, hasProgress, budget, ctxCancelled, wg, mu, run,
                   ret, responses, totalCalls, completed, results, progressLog, report>>

(* A faulty variant: the semaphore holds one slot more than cfg.Concurrency. *)
DispatchStartExtraSlot ==
    /\ dpc = "acquire"
    /\ sem <= cfg.Concurrency
    /\ sem' = sem + 1
    /\ pc' = [pc EXCEPT ![qi] = "det_wait"]
    /\ qi' = qi + 1
    /\ dpc' = "loop"
    /\ UNCHANGED <<xvars, fvars, agentIDs, questions, cfg, hasProgress, budget, ctxCancelled, wg, mu, run,
                   ret, responses, totalCalls, completed, results, progressLog, report>>

DispatchStart ==
    /\ dpc = "acquire"
    /\ sem < cfg.Concurrency
    /\ sem' = sem + 1
    /\ pc' = [pc EXCEPT ![qi] = "det_wait"]
    /\ qi' = qi + 1
    /\ dpc' = "loop"
    /\ UNCHANGED <<xvars, fvars, agentIDs, questions, cfg, hasProgress, budget, ctxCancelled, wg, mu, run,
                   ret, responses, totalCalls, completed, results, progressLog, report>>

WaitAll ==
    /\ dpc = "wait"
    /\ wg = 0
    /\ dpc' = "score"
    /\ UNCHANGED <<xvars, fvars, agentIDs, questions, cfg, hasProgress, budget, ctxCancelled, qi, wg, sem, mu,
                   pc, run, ret, responses, totalCalls, completed, results, progressLog, report>>

Return ==
    /\ dpc = "score"
    /\ report' = [TotalCalls |-> totalCalls,
                  Budget     |-> Len(questions) * (1 + cfg.StochasticRuns)]
    /\ dpc' = "done"
    /\ UNCHANGED <<xvars, fvars, agentIDs, questions, cfg, hasProgress, budget, ctxCancelled, qi, wg, sem, mu,
                   pc, run, ret, responses, totalCalls, completed, results, progressLog>>

----------------------------------------------------------------------------
(* RunLiveProbes: one probe task *)

CompleteReturn(t) ==
    /\ pc[t] \in {"det_wait", "st_wait"}
    /\ \E o \in CompleteOutcomes :
         IF o = "panic"
           THEN /\ pc' = [pc EXCEPT ![t] = "recover"]
                /\ UNCHANGED ret
           ELSE /\ pc' = [pc EXCEPT ![t] = IF pc[t] = "det_wait" THEN "det_lock" ELSE "st_lock"]
                /\ ret' = [ret EXCEPT ![t] = o]
    /\ UNCHANGED <<xvars, fvars, agentIDs, questions, cfg, hasProgress, budget, ctxCancelled, dpc, qi, wg, sem,
                   mu, run, responses, totalCalls, completed, results, progressLog, report>>

ErrorOf(r) == IF r = "err" THEN "err" ELSE ""

(* resp and err are locals of the task, dead once they are recorded: they
   go back to "none". *)

(* mu.Lock() before totalCalls++: the task waits until the mutex is free. *)
LockCounter(t) ==
    /\ pc[t] \in {"det_lock", "st_lock"}
    /\ mu = 0
    /\ mu' = t
    /\ pc' = [pc EXCEPT ![t] = IF pc[t] = "det_lock" THEN "det_count" ELSE "st_count"]
    /\ UNCHANGED <<xvars, fvars, agentIDs, questions, cfg, hasProgress, budget, ctxCancelled, dpc, qi, wg, sem,
                   run, ret, responses, totalCalls, completed, results, progressLog, report>>

(* A faulty variant: a call that returned an error is not counted. *)
CountDeterministicOnlySuccess(t) ==
    /\ pc[t] = "det_count"
    /\ mu = t
    /\ mu' = 0
    /\ totalCalls' = (IF ret[t] = "err" THEN totalCalls ELSE totalCalls + 1)
    /\ responses' = [responses EXCEPT ![t] = Append(@, ResponseRecord(0, 0, ErrorOf(ret[t])))]
    /\ run' = [run EXCEPT ![t] = 1]
    /\ pc' = [pc EXCEPT ![t] = IF 1 <= cfg.StochasticRuns THEN "st_wait" ELSE "fin_lock"]
    /\ ret' = [ret EXCEPT ![t] = "none"]
    /\ UNCHANGED <<xvars, fvars, agentIDs, questions, cfg, hasProgress, budget, ctxCancelled, dpc, qi, wg, sem,
                   completed, results, progressLog, report>>

(* totalCalls++ and mu.Unlock(), then the response record is appended to
   the task's own list. *)
CountDeterministic(t) ==
    /\ pc[t] = "det_count"
    /\ mu = t
    /\ mu' = 0
    /\ totalCalls' = totalCalls + 1
    /\ responses' = [responses EXCEPT ![t] = Append(@, ResponseRecord(0, 0, ErrorOf(ret[t])))]
    /\ run' = [run EXCEPT ![t] = 1]
    /\ pc' = [pc EXCEPT ![t] = IF 1 <= cfg.StochasticRuns THEN "st_wait" ELSE "fin_lock"]
    /\ ret' = [ret EXCEPT ![t] = "none"]
    /\ UNCHANGED <<xvars, fvars, agentIDs, questions, cfg, hasProgress, budget, ctxCancelled, dpc, qi, wg, sem,
                   completed, results, progressLog, report>>

CountStochasticSkipErr(t) ==
    /\ pc[t] = "st_count"
    /\ mu = t
    /\ mu' = 0
    /\ totalCalls' = totalCalls + 1
    /\ responses' = [responses EXCEPT ![t] =
                       IF ret[t] = "err" THEN @
                       ELSE Append(@, ResponseRecord(run[t], StochasticTemperature, ""))]
    /\ pc' = [pc EXCEPT ![t] = "sleeping"]
    /\ ret' = [ret EXCEPT ![t] = "none"]
    /\ UNCHANGED <<xvars, fvars, agentIDs, questions, cfg, hasProgress, budget, ctxCancelled, dpc, qi, wg, sem,
                   run, completed, results, progressLog, report>>

(* A faulty variant: the call is also counted by a task that has not yet
   taken the mutex. *)
CountStochasticUnlocked(t) ==
    /\ pc[t] \in {"st_lock", "st_count"}
    /\ mu' = (IF mu = t THEN 0 ELSE mu)
    /\ totalCalls' = totalCalls + 1
    /\ responses' = [responses EXCEPT ![t] =
                       Append(@, ResponseRecord(run[t], StochasticTemperature, ErrorOf(ret[t])))]
    /\ pc' = [pc EXCEPT ![t] = "sleeping"]
    /\ ret' = [ret EXCEPT ![t] = "none"]
    /\ UNCHANGED <<xvars, fvars, agentIDs, questions, cfg, hasProgress, budget, ctxCancelled, dpc, qi, wg, sem,
                   run, completed, results, progressLog, report>>

CountStochastic(t) ==
    /\ pc[t] = "st_count"
    /\ mu = t
    /\ mu' = 0
    /\ totalCalls' = totalCalls + 1
    /\ responses' = [responses EXCEPT ![t] =
                       Append(@, ResponseRecord(run[t], StochasticTemperature, ErrorOf(ret[t])))]
    /\ pc' = [pc EXCEPT ![t] = "sleeping"]
    /\ ret' = [ret EXCEPT ![t] = "none"]
    /\ UNCHANGED <<xvars, fvars, agentIDs, questions, cfg, hasProgress, budget, ctxCancelled, dpc, qi, wg, sem,
                   run, completed, results, progressLog, report>>

(* time.Sleep(cfg.BatchDelay) returns after the full delay; it takes no context. *)
SleepReturn(t) ==
    /\ pc[t] = "sleeping"
    /\ run' = [run EXCEPT ![t] = @ + 1]
    /\ pc' = [pc EXCEPT ![t] = IF run[t] + 1 <= cfg.StochasticRuns THEN "st_wait" ELSE "fin_lock"]
    /\ UNCHANGED <<xvars, fvars, agentIDs, questions, cfg, hasProgress, budget, ctxCancelled, dpc, qi, wg, sem,
                   mu, ret, responses, totalCalls, completed, results, progressLog, report>>

(* The completion section and the recover handler *)

(* mu.Lock() of the completion section and of the recover handler. *)
LockResults(t) ==
    /\ pc[t] \in {"fin_lock", "recover"}
    /\ mu = 0
    /\ mu' = t
    /\ pc' = [pc EXCEPT ![t] = IF pc[t] = "fin_lock" THEN "fin_record" ELSE "rec_record"]
    /\ UNCHANGED <<xvars, fvars, agentIDs, questions, cfg, hasProgress, budget, ctxCancelled, dpc, qi, wg, sem,
                   run, ret, responses, totalCalls, completed, results, progressLog, report>>

Record(t, detail) ==
    LET a == questions[t].TargetAgent IN
    /\ mu = t
    /\ results' = [results EXCEPT ![a] = [ProbesRun |-> @.ProbesRun + 1,
                                          Details   |-> Append(@.Details, detail)]]
    /\ completed' = completed + 1
    /\ IF hasProgress
         THEN /\ progressLog' = Append(progressLog,
                    [done |-> completed + 1, total |-> Len(questions),
                     agentID |-> a, probeID |-> questions[t].ID])
              /\ pc' = [pc EXCEPT ![t] = "in_progress"]
              /\ UNCHANGED mu
         ELSE /\ pc' = [pc EXCEPT ![t] = "release"]
              /\ mu' = 0
              /\ UNCHANGED progressLog
    /\ UNCHANGED <<xvars, fvars, agentIDs, questions, cfg, hasProgress, budget, ctxCancelled, dpc, qi, wg, sem,
                   run, ret, responses, totalCalls, report>>

RecordDetail(t) ==
    /\ pc[t] = "fin_record"
    /\ Record(t, ProbeDetail(questions[t], responses[t]))

PanicResponsesKeepPartial(t) == Append(responses[t], ResponseRecord(0, 0, "panic"))

PanicResponses(t) == <<ResponseRecord(0, 0, "panic")>>

(* Faulty variants of the recover handler: one that records nothing, one
   that skips the progress callback. *)
RecordPanicDropped(t) ==
    /\ pc[t] = "rec_record"
    /\ mu = t
    /\ mu' = 0
    /\ pc' = [pc EXCEPT ![t] = "release"]
    /\ UNCHANGED <<xvars, fvars, agentIDs, questions, cfg, hasProgress, budget, ctxCancelled, dpc, qi, wg, sem,
                   run, ret, responses, totalCalls, completed, results, progressLog, report>>

RecordPanicSilent(t) ==
    LET a == questions[t].TargetAgent IN
    /\ pc[t] = "rec_record"
    /\ mu = t
    /\ mu' = 0
    /\ results' = [results EXCEPT ![a] =
                      [ProbesRun |-> @.ProbesRun + 1,
                       Details   |-> Append(@.Details, ProbeDetail(questions[t], PanicResponses(t)))]]
    /\ completed' = completed + 1
    /\ pc' = [pc EXCEPT ![t] = "release"]
    /\ UNCHANGED <<xvars, fvars, agentIDs, questions, cfg, hasProgress, budget, ctxCancelled, dpc, qi, wg, sem,
                   run, ret, responses, totalCalls, report, progressLog>>

RecordPanic(t) ==
    /\ pc[t] = "rec_record"
    /\ Record(t, ProbeDetail(questions[t], PanicResponses(t)))

Unlock(t) ==
    /\ pc[t] = "in_progress"
    /\ mu' = 0
    /\ pc' = [pc EXCEPT ![t] = "release"]
    /\ UNCHANGED <<xvars, fvars, agentIDs, questions, cfg, hasProgress, budget, ctxCancelled, dpc, qi, wg, sem,
                   run, ret, responses, totalCalls, completed, results, progressLog, report>>

(* The progress callback faults.  In the completion section the fault
   unwinds to the deferred recover handler with the mutex still held by the
   task, and the handler starts with mu.Lock(); in the recover handler
   itself the fault is recovered by nobody and ends the process. *)
RecordedPanic(t) ==
    \E k \in 1..Len(results[questions[t].TargetAgent].Details) :
        LET d == results[questions[t].TargetAgent].Details[k] IN
        /\ d.ProbeID = questions[t].ID
        /\ Len(d.Responses) = 1
        /\ d.Responses[1].Error = "panic"

ProgressPanic(t) ==
    /\ pc[t] = "in_progress"
    /\ IF RecordedPanic(t)
         THEN /\ pc' = [u \in DOMAIN pc |-> "crashed"]
              /\ dpc' = "crashed"
         ELSE /\ pc' = [pc EXCEPT ![t] = "recover"]
              /\ dpc' = dpc
    /\ UNCHANGED <<xvars, fvars, agentIDs, questions, cfg, hasProgress, budget, ctxCancelled, qi, wg, sem, mu,
                   run, ret, responses, totalCalls, completed, results, progressLog, report>>

(* The deferred calls that end a task: <-sem, then wg.Done(). *)
ReleaseSlotLeaked(t) ==
    /\ pc[t] = "release"
    /\ wg' = wg - 1
    /\ pc' = [pc EXCEPT ![t] = "exit"]
    /\ UNCHANGED <<xvars, fvars, agentIDs, questions, cfg, hasProgress, budget, ctxCancelled, dpc, qi, mu,
                   sem, run, ret, responses, totalCalls, completed, results, progressLog, report>>

ReleaseSlot(t) ==
    /\ pc[t] = "release"
    /\ sem' = sem - 1
    /\ wg' = wg - 1
    /\ pc' = [pc EXCEPT ![t] = "exit"]
    /\ UNCHANGED <<xvars, fvars, agentIDs, questions, cfg, hasProgress, budget, ctxCancelled, dpc, qi, mu,
                   run, ret, responses, totalCalls, completed, results, progressLog, report>>

(* The caller cancels the shared context. *)
Cancel ==
    /\ ~ctxCancelled
    /\ dpc # "done"
    /\ ctxCancelled' = TRUE
    /\ UNCHANGED <<xvars, fvars, agentIDs, questions, cfg, hasProgress, budget, dpc, qi, wg, sem, mu, pc, run,
                   ret, responses, totalCalls, completed, results, progressLog, report>>

----------------------------------------------------------------------------
(* doWithRetry and retryDelay (internal/provider/retry.go) *)

StatusTooManyRequests == 429

StatusCodes == {200, StatusTooManyRequests, 500}

(* Header values are strings, modelled as sequences of characters; <<>> is
   the absent header, for which Header.Get returns "". *)
RetryAfterValues == { <<>>, <<"0">>, <<"2">>, <<"1", "0">>, <<"-", "1">>, <<"+", "3">>, <<"x">> }

Digits == <<"0", "1", "2", "3", "4", "5", "6", "7", "8", "9">>

IsDigit(c) == \E i \in 1..Len(Digits) : Digits[i] = c

DigitValue(c) == (CHOOSE i \in 1..Len(Digits) : Digits[i] = c) - 1

RECURSIVE DigitsValue(_)
DigitsValue(s) ==
    IF s = <<>> THEN 0
    ELSE 10 * DigitsValue(SubSeq(s, 1, Len(s) - 1)) + DigitValue(s[Len(s)])

(* strconv.Atoi: an optional sign followed by at least one decimal digit. *)
Atoi(s) ==
    LET signed == Len(s) > 0 /\ s[1] \in {"+", "-"}
        body   == IF signed THEN Tail(s) ELSE s
        valid  == body # <<>> /\ \A i \in 1..Len(body) : IsDigit(body[i])
    IN IF ~valid THEN [ok |-> FALSE, val |-> 0]
       ELSE [ok |-> TRUE,
             val |-> IF signed /\ s[1] = "-" THEN 0 - DigitsValue(body) ELSE DigitsValue(body)]

(* A faulty variant of retryDelay: the backoff starts at 2s. *)
retryDelayLateBackoff(resp, k) ==
    LET ra == resp.RetryAfter
        n  == Atoi(ra)
    IN IF ra # <<>> /\ n.ok /\ n.val > 0 THEN n.val ELSE 2 ^ (k + 1)

(* The wait before the next attempt, in seconds. *)
retryDelay(resp, k) ==
    LET ra == resp.RetryAfter
        n  == Atoi(ra)
    IN IF ra # <<>> /\ n.ok /\ n.val > 0 THEN n.val ELSE 2 ^ k

NilResponse == [StatusCode |-> 0, RetryAfter |-> <<>>]

(* The outcomes of one client.Do: a transport error or a response. *)
DoOutcomes ==
    { [err |-> "transport", StatusCode |-> 0, RetryAfter |-> <<>>] }
    \cup { [err |-> "nil", StatusCode |-> StatusTooManyRequests, RetryAfter |-> h] :
             h \in RetryAfterValues }
    \cup { [err |-> "nil", StatusCode |-> s, RetryAfter |-> <<>>] :
             s \in StatusCodes \ {StatusTooManyRequests} }

ResponseOf(o) == [StatusCode |-> o.StatusCode, RetryAfter |-> o.RetryAfter]

(* Faulty variants of the give-up condition: one attempt too many, and a
   retry after every failure status. *)
ShouldReturnOffByOne(resp, k, m) ==
    resp.StatusCode # StatusTooManyRequests \/ k > m

ShouldReturnOnlyOnSuccess(resp, k, m) ==
    resp.StatusCode = 200 \/ k >= m

ShouldReturn(resp, k, m) ==
    resp.StatusCode # StatusTooManyRequests \/ k >= m

Do ==
    /\ rpc = "do"
    /\ \E o \in DoOutcomes :
         /\ calls' = Append(calls, o)
         /\ IF o.err # "nil"
              THEN /\ retResp' = NilResponse
                   /\ retErr' = o.err
                   /\ rpc' = "returned"
                   /\ UNCHANGED waits
              ELSE IF ShouldReturn(ResponseOf(o), attempt, maxRetries)
                     THEN /\ retResp' = ResponseOf(o)
                          /\ retErr' = "nil"
                          /\ rpc' = "returned"
                          /\ UNCHANGED waits
                     ELSE /\ waits' = Append(waits, retryDelay(ResponseOf(o), attempt))
                          /\ rpc' = "wait"
                          /\ UNCHANGED <<retResp, retErr>>
    /\ UNCHANGED <<rvars, fvars, maxRetries, attempt, reqCtxDone>>

(* The select: the timer fires and the loop goes on, or ctx is done. *)
WaitElapsed ==
    /\ rpc = "wait"
    /\ attempt' = attempt + 1
    /\ rpc' = "do"
    /\ UNCHANGED <<rvars, fvars, maxRetries, calls, waits, reqCtxDone, retResp, retErr>>

CtxDone ==
    /\ rpc = "wait"
    /\ reqCtxDone
    /\ retResp' = NilResponse
    /\ retErr' = "ctx"
    /\ rpc' = "returned"
    /\ UNCHANGED <<rvars, fvars, maxRetries, attempt, calls, waits, reqCtxDone>>

(* The caller cancels the context of the request. *)
CancelRequest ==
    /\ rpc \in {"do", "wait"}
    /\ ~reqCtxDone
    /\ reqCtxDone' = TRUE
    /\ UNCHANGED <<rvars, fvars, maxRetries, attempt, rpc, calls, waits, retResp, retErr>>

RetryInit(m, cancelled) ==
    /\ maxRetries = m
    /\ attempt = 0
    /\ rpc = "do"
    /\ calls = <<>>
    /\ waits = <<>>
    /\ reqCtxDone = cancelled
    /\ retResp = NilResponse
    /\ retErr = "nil"

(* No request under way. *)
RetryIdle ==
    /\ maxRetries = 0
    /\ attempt = 0
    /\ rpc = "idle"
    /\ calls = <<>>
    /\ waits = <<>>
    /\ reqCtxDone = FALSE
    /\ retResp = NilResponse
    /\ retErr = "nil"

----------------------------------------------------------------------------
(* GenerateProbes (internal/probes/questions.go) *)

GeneratorStochasticRuns == 5

(* Domain names are strings, modelled as sequences of characters. *)
Generic == <<"_", "g", "e", "n", "e", "r", "i", "c">>
Backend == <<"b", "a", "c", "k", "e", "n", "d">>
Frontend == <<"f", "r", "o", "n", "t", "e", "n", "d">>
Devops == <<"d", "e", "v", "o", "p", "s">>
Databases == <<"d", "a", "t", "a", "b", "a", "s", "e", "s">>
Security == <<"s", "e", "c", "u", "r", "i", "t", "y">>
MlAi == <<"m", "l", "_", "a", "i">>
DistributedSystems == <<"d", "i", "s", "t", "r", "i", "b", "u", "t", "e", "d", "_",
                        "s", "y", "s", "t", "e", "m", "s">>
ApiDesign == <<"a", "p", "i", "_", "d", "e", "s", "i", "g", "n">>
OutOfScope == <<"o", "u", "t", "_", "o", "f", "_", "s", "c", "o", "p", "e">>
Medical == <<"m", "e", "d", "i", "c", "a", "l">>
Legal == <<"l", "e", "g", "a", "l">>

questionEntry(q, d) == [question |-> q, domain |-> d]

(* Four entries of the question bank, with the questions named by their
   place in the bank. *)
BoundaryQuestions ==
    (Backend :> << questionEntry("backend/1", Frontend),
                   questionEntry("backend/2", Devops),
                   questionEntry("backend/3", Databases) >>)
    @@ (Security :> << questionEntry("security/1", Databases),
                       questionEntry("security/2", Security),
                       questionEntry("security/3", Devops),
                       questionEntry("security/4", Security) >>)
    @@ (MlAi :> << questionEntry("ml_ai/1", DistributedSystems),
                   questionEntry("ml_ai/2", MlAi),
                   questionEntry("ml_ai/3", ApiDesign),
                   questionEntry("ml_ai/4", MlAi) >>)
    @@ (Generic :> << questionEntry("_generic/1", OutOfScope),
                      questionEntry("_generic/2", Medical),
                      questionEntry("_generic/3", Legal) >>)

UpperCase == <<"A", "B", "C", "D", "E", "F", "G", "H", "I", "J", "K", "L", "M",
               "N", "O", "P", "Q", "R", "S", "T", "U", "V", "W", "X", "Y", "Z">>
LowerCase == <<"a", "b", "c", "d", "e", "f", "g", "h", "i", "j", "k", "l", "m",
               "n", "o", "p", "q", "r", "s", "t", "u", "v", "w", "x", "y", "z">>

ToLower(c) ==
    IF \E i \in 1..Len(UpperCase) : UpperCase[i] = c
      THEN LowerCase[CHOOSE i \in 1..Len(UpperCase) : UpperCase[i] = c]
      ELSE c

(* strings.ToLower, then " " and "-" replaced by "_". *)
Normalize(s) ==
    [i \in 1..Len(s) |-> LET c == ToLower(s[i]) IN IF c \in {" ", "-"} THEN "_" ELSE c]

Orderings(S) ==
    { f \in [1..Cardinality(S) -> S] : \A i, j \in 1..Cardinality(S) : f[i] = f[j] => i = j }

(* The lists inferPrimaryDomain can return: the bank's domains found in the
   agent's text (its field mentions), in the order of a map iteration, which
   Go leaves unspecified; the generic key when none is found. *)
inferPrimaryDomain(agent) ==
    LET found == { d \in DOMAIN BoundaryQuestions : d # Generic /\ d \in agent.mentions } IN
    IF found = {} THEN { <<Generic>> } ELSE Orderings(found)

ProbeQuestion(text, target, domain, type) ==
    [Text |-> text, TargetAgent |-> target, Domain |-> domain, ProbeType |-> type]

GenericProbes(agent) ==
    [k \in 1..Len(BoundaryQuestions[Generic]) |->
        LET q == BoundaryQuestions[Generic][k] IN
        ProbeQuestion(q.question, agent.ID, q.domain, "boundary")]

DomainKeyProbes(agent, domainKey) ==
    LET normalized == Normalize(domainKey) IN
    IF normalized \notin DOMAIN BoundaryQuestions THEN <<>>
    ELSE [k \in 1..Len(BoundaryQuestions[normalized]) |->
            LET q == BoundaryQuestions[normalized][k] IN
            ProbeQuestion(q.question, agent.ID, q.domain,
                          IF q.domain = normalized THEN "calibration" ELSE "boundary")]

RECURSIVE DomainProbes(_, _)
DomainProbes(agent, domainKeys) ==
    IF domainKeys = <<>> THEN <<>>
    ELSE DomainKeyProbes(agent, Head(domainKeys)) \o DomainProbes(agent, Tail(domainKeys))

(* inferred is what inferPrimaryDomain returns for the agent in this call. *)
AgentProbes(agent, inferred) ==
    LET agentDomains == IF Len(agent.ClaimedDomains) = 0 THEN inferred ELSE agent.ClaimedDomains
    IN GenericProbes(agent) \o DomainProbes(agent, agentDomains)

RECURSIVE GeneratedProbes(_, _)
GeneratedProbes(agents, inferred) ==
    IF agents = <<>> THEN <<>>
    ELSE AgentProbes(Head(agents), Head(inferred)) \o GeneratedProbes(Tail(agents), Tail(inferred))

(* probeID counts the appended probes from 0; the ID is its rendering by
   "probe_%04d", which is one-to-one, so the number stands for it. *)
WithIDs(probes) ==
    [k \in 1..Len(probes) |->
        [ID |-> k - 1, Text |-> probes[k].Text, TargetAgent |-> probes[k].TargetAgent,
         Domain |-> probes[k].Domain, ProbeType |-> probes[k].ProbeType]]

priority(type) ==
    CASE type = "boundary" -> 0
      [] type = "refusal" -> 1
      [] type = "overlap" -> 2
      [] type = "calibration" -> 3
      [] OTHER -> 0

(* A faulty variant of the sort: the list is left in generation order. *)
SortByPriorityUnsorted(probes, p) == IF p > 0 THEN <<>> ELSE probes

(* sort.SliceStable by priority *)
RECURSIVE SortByPriority(_, _)
SortByPriority(probes, p) ==
    IF p > 3 THEN <<>>
    ELSE SelectSeq(probes, LAMBDA q : priority(q.ProbeType) = p) \o SortByPriority(probes, p + 1)

(* Go's integer division truncates toward zero. *)
GoDiv(a, b) == IF a >= 0 THEN a \div b ELSE 0 - ((0 - a) \div b)

(* The result of GenerateProbes: the probes, or a fault when the slice
   expression probes[:maxProbes] is out of range. *)
GenerateProbes(agents, b, inferred) ==
    LET probes == WithIDs(GeneratedProbes(agents, inferred))
        callsPerProbe == 1 + GeneratorStochasticRuns
        maxProbes == GoDiv(b, callsPerProbe)
    IN IF Len(probes) > maxProbes
         THEN IF maxProbes < 0
                THEN [panic |-> TRUE, probes |-> <<>>]
                ELSE [panic |-> FALSE, probes |-> SubSeq(SortByPriority(probes, 0), 1, maxProbes)]
         ELSE [panic |-> FALSE, probes |-> probes]

----------------------------------------------------------------------------
(* ScoreAgentProbes (internal/probes).  float64 scores are modelled as exact
   fractions in lowest terms; a *float64 is a sequence of length 0 (nil) or
   1; a HedgingScore is given in hundredths. *)

RECURSIVE GCD(_, _)
GCD(a, b) == IF b = 0 THEN a ELSE GCD(b, a % b)

Abs(n) == IF n < 0 THEN 0 - n ELSE n

Rat(n, d) ==
    LET g == GCD(Abs(n), d) IN
    IF n >= 0 THEN [num |-> n \div g, den |-> d \div g]
    ELSE [num |-> 0 - ((0 - n) \div g), den |-> d \div g]

FromInt(n) == Rat(n, 1)
RAdd(a, b) == Rat(a.num * b.den + b.num * a.den, a.den * b.den)
RSub(a, b) == Rat(a.num * b.den - b.num * a.den, a.den * b.den)
RMul(a, b) == Rat(a.num * b.num, a.den * b.den)
RDivInt(a, k) == Rat(a.num, a.den * k)
RLess(a, b) == a.num * b.den < b.num * a.den
RMax(a, b) == IF RLess(a, b) THEN b ELSE a

RECURSIVE RSum(_)
RSum(seq) == IF seq = <<>> THEN FromInt(0) ELSE RAdd(Head(seq), RSum(Tail(seq)))

NeutralScore == Rat(1, 2)

(* strings.Contains(strings.ToLower(s), sub), on sequences of characters *)
ContainsLower(s, sub) ==
    \E i \in 1..(Len(s) - Len(sub) + 1) :
        \A j \in 1..Len(sub) : ToLower(s[i + j - 1]) = sub[j]

ShouldHedge == <<"s", "h", "o", "u", "l", "d", " ", "h", "e", "d", "g", "e">>

(* A faulty variant of the filter: responses with an error are kept. *)
stochasticResponsesWithErrors(resps) ==
    SelectSeq(resps, LAMBDA r : r.Temperature > 0)

stochasticResponses(resps) ==
    SelectSeq(resps, LAMBDA r : r.Temperature > 0 /\ r.Error = "")

(* The stochastic responses of all details in loop order, each with the
   type and the expected behaviour of its probe. *)
RECURSIVE StochasticOf(_)
StochasticOf(details) ==
    IF details = <<>> THEN <<>>
    ELSE LET detail == Head(details)
             stochastic == stochasticResponses(detail.Responses)
         IN [k \in 1..Len(stochastic) |->
                [ProbeType |-> detail.ProbeType, Expected |-> detail.Expected,
                 resp |-> stochastic[k]]]
            \o StochasticOf(Tail(details))

IsBoundaryHit(resp) ==
    \/ resp.IsRefusal
    \/ resp.HedgingScore > 50
    \/ resp.Confidence # <<>> /\ resp.Confidence[1] < 50

(* A faulty variant of the boundary score: no neutral default. *)
BoundaryScoreOfNoDefault(S) ==
    LET total == Cardinality({ i \in 1..Len(S) : S[i].ProbeType = "boundary" })
        hits  == Cardinality({ i \in 1..Len(S) :
                                 S[i].ProbeType = "boundary" /\ IsBoundaryHit(S[i].resp) })
    IN IF total > 0 THEN Rat(hits, total) ELSE FromInt(0)

BoundaryScoreOf(S) ==
    LET total == Cardinality({ i \in 1..Len(S) : S[i].ProbeType = "boundary" })
        hits  == Cardinality({ i \in 1..Len(S) :
                                 S[i].ProbeType = "boundary" /\ IsBoundaryHit(S[i].resp) })
    IN IF total > 0 THEN Rat(hits, total) ELSE NeutralScore

RefusalHealthOf(S) ==
    LET opportunities == { i \in 1..Len(S) : ContainsLower(S[i].Expected, ShouldHedge) }
        appropriate   == { i \in opportunities :
                             S[i].resp.IsRefusal \/ S[i].resp.HedgingScore > 40 }
    IN IF Cardinality(opportunities) > 0
         THEN Rat(Cardinality(appropriate), Cardinality(opportunities))
         ELSE NeutralScore

(* math.Max(0, 1.0 - math.Max(0, meanConf - 70) / 30) *)
CalibrationOfMean(meanConf) ==
    RMax(FromInt(0),
         RSub(FromInt(1), RDivInt(RMax(FromInt(0), RSub(meanConf, FromInt(70))), 30)))

(* A faulty variant: the penalty starts at a mean confidence of 60. *)
CalibrationScoreOfEarly(S) ==
    LET withConf == SelectSeq(S, LAMBDA x : x.resp.Confidence # <<>>)
        confidences == [k \in 1..Len(withConf) |-> FromInt(withConf[k].resp.Confidence[1])]
    IN IF Len(confidences) > 0
         THEN RMax(FromInt(0),
                   RSub(FromInt(1),
                        RDivInt(RMax(FromInt(0),
                                     RSub(RDivInt(RSum(confidences), Len(confidences)),
                                          FromInt(60))), 30)))
         ELSE NeutralScore

CalibrationScoreOf(S) ==
    LET withConf == SelectSeq(S, LAMBDA x : x.resp.Confidence # <<>>)
        confidences == [k \in 1..Len(withConf) |-> FromInt(withConf[k].resp.Confidence[1])]
    IN IF Len(confidences) > 0
         THEN CalibrationOfMean(RDivInt(RSum(confidences), Len(confidences)))
         ELSE NeutralScore

(* The confidences the consistency loop takes from one detail: those of the
   responses with Temperature > 0, whatever their Error. *)
ConsistencyConfs(detail) ==
    LET used == SelectSeq(detail.Responses, LAMBDA r : r.Temperature > 0 /\ r.Confidence # <<>>)
    IN [k \in 1..Len(used) |-> FromInt(used[k].Confidence[1])]

VarianceOf(confs) ==
    LET mean == RDivInt(RSum(confs), Len(confs))
        squares == [k \in 1..Len(confs) |->
                       RMul(RSub(confs[k], mean), RSub(confs[k], mean))]
    IN RDivInt(RSum(squares), Len(confs))

ConsistencyScoreOf(details) ==
    LET withData == SelectSeq(details, LAMBDA d : Len(ConsistencyConfs(d)) >= 2)
        variances == [k \in 1..Len(withData) |-> VarianceOf(ConsistencyConfs(withData[k]))]
    IN IF Len(variances) > 0
         THEN RMax(FromInt(0),
                   RSub(FromInt(1), RDivInt(RDivInt(RSum(variances), Len(variances)), 100)))
         ELSE NeutralScore

(* A faulty variant: the scores are computed for an empty Details list too. *)
ScoreAgentProbesAlways(res) ==
    LET S == StochasticOf(res.Details) IN
    [res EXCEPT !.BoundaryScore = BoundaryScoreOf(S),
                !.RefusalHealth = RefusalHealthOf(S),
                !.CalibrationScore = CalibrationScoreOf(S),
                !.ConsistencyScore = ConsistencyScoreOf(res.Details)]

ScoreAgentProbes(res) ==
    IF Len(res.Details) = 0 THEN res
    ELSE LET S == StochasticOf(res.Details) IN
         [res EXCEPT !.BoundaryScore = BoundaryScoreOf(S),
                         !.RefusalHealth = RefusalHealthOf(S),
                         !.CalibrationScore = CalibrationScoreOf(S),
                         !.ConsistencyScore = ConsistencyScoreOf(res.Details)]

----------------------------------------------------------------------------
(* Specification of a run over a directly supplied question list *)

Agents == {"a1", "a2"}
Targets == Agents \cup {"ghost"}

(* The two agents are interchangeable: a list names "a2" only after "a1". *)
CanonicalTargets(n) ==
    { g \in [1..n -> Targets] : \A i \in 1..n : g[i] = "a2" => \E j \in 1..(i - 1) : g[j] = "a1" }

QuestionListsOver(targets) ==
    UNION { { [i \in 1..n |-> [ID |-> i, TargetAgent |-> f[i], ProbeType |-> "boundary"]] :
                f \in { g \in CanonicalTargets(n) : \A i \in 1..n : g[i] \in targets } } :
            n \in 0..MaxQuestions }

QuestionLists == QuestionListsOver(Targets)

RunInit(as, qs, c, prog, b) ==
    /\ agentIDs = as
    /\ questions = qs
    /\ cfg = c
    /\ hasProgress = prog
    /\ budget = b
    /\ ctxCancelled = FALSE
    /\ dpc = "defaults"
    /\ qi = 1
    /\ wg = 0
    /\ sem = 0
    /\ mu = 0
    /\ pc = [t \in 1..Len(qs) |-> "pending"]
    /\ run = [t \in 1..Len(qs) |-> 0]
    /\ ret = [t \in 1..Len(qs) |-> "none"]
    /\ responses = [t \in 1..Len(qs) |-> <<>>]
    /\ totalCalls = 0
    /\ completed = 0
    /\ results = [a \in as |-> EmptyResults]
    /\ progressLog = <<>>
    /\ report = NoReport

(* Both callers, the test command and the test, pass a progress callback. *)
ProgressInputs == {TRUE}

RunInputs(lists) ==
    \E qs \in lists, n \in 0..MaxStochasticRuns, k \in 0..MaxConcurrency,
       prog \in ProgressInputs :
        LET c == RunConfig(n, 0, k) IN
        /\ Len(qs) * (1 + RunConfigDefaults(c).StochasticRuns) <= MaxCalls
        /\ RunInit(Agents, qs, c, prog, 0)
        /\ RetryIdle
        /\ FunctionsIdle

Init == RunInputs(QuestionLists)

TaskStep(t) ==
    \/ CompleteReturn(t)
    \/ LockCounter(t)
    \/ CountDeterministic(t)
    \/ CountStochastic(t)
    \/ SleepReturn(t)
    \/ LockResults(t)
    \/ RecordDetail(t)
    \/ RecordPanic(t)
    \/ Unlock(t)
    \/ ReleaseSlot(t)

Dispatcher == ApplyDefaults \/ DispatchNext \/ DispatchStart \/ WaitAll \/ Return

Next ==
    \/ Dispatcher
    \/ \E t \in Tasks : TaskStep(t)

Spec == Init /\ [][Next]_vars

(* The same run with a caller that may cancel the shared context. *)
NextCancel ==
    \/ Dispatcher
    \/ \E t \in Tasks : TaskStep(t)
    \/ Cancel

SpecCancel == Init /\ [][NextCancel]_vars

(* The runs whose questions target one loaded agent or an unknown one. *)
InitFair == RunInputs(QuestionListsOver({"a1", "ghost"}))

(* While a goroutine can run one of them does, every Complete call returns
   or faults and every sleep ends: weak fairness of Next. *)
FairSpec == InitFair /\ [][Next]_vars /\ WF_vars(Next)

(* The same runs with a progress callback that may fault; the scheduling
   is that of FairSpec, and no fault is ever forced. *)
NextProgressFault ==
    \/ Dispatcher
    \/ \E t \in Tasks : TaskStep(t)
    \/ \E t \in Tasks : ProgressPanic(t)

SpecProgressFault == InitFair /\ [][NextProgressFault]_vars /\ WF_vars(Next)

----------------------------------------------------------------------------
(* Specification of one doWithRetry call *)

RunnerIdle == RunInit({}, <<>>, RunConfig(0, 0, 0), FALSE, 0)

InitRetry ==
    \E m \in 0..MaxRetries, cancelled \in BOOLEAN :
        /\ RetryInit(m, cancelled)
        /\ RunnerIdle
        /\ FunctionsIdle

NextRetry == Do \/ WaitElapsed \/ CtxDone \/ CancelRequest

SpecRetry == InitRetry /\ [][NextRetry]_vars

----------------------------------------------------------------------------
(* Specification of a caller in the manner of the test command:
   GenerateProbes(agents, budget), then RunLiveProbes over the generated
   probes with its own run configuration. *)

AgentDefinition(id, claimed, mentioned) ==
    [ID |-> id, ClaimedDomains |-> claimed, mentions |-> mentioned]

BudgetAgentLists ==
    { <<>>,
      << AgentDefinition("a1", <<Backend>>, {}) >>,
      << AgentDefinition("a1", << <<"M", "L", "-", "A", "I">> >>, {}) >>,
      << AgentDefinition("a1", <<>>, {Security}) >> }

InferredLists(agents) ==
    { f \in [1..Len(agents) -> UNION { inferPrimaryDomain(agents[i]) : i \in 1..Len(agents) }] :
        \A i \in 1..Len(agents) : f[i] \in inferPrimaryDomain(agents[i]) }

BatchDelays == {0, 100}

InitBudget ==
    \E agents \in BudgetAgentLists, b \in 0..MaxBudget, n \in 0..MaxBudgetRuns,
       d \in BatchDelays, k \in {0, DefaultConcurrency} :
      \E inferred \in InferredLists(agents) :
        LET out == GenerateProbes(agents, b, inferred) IN
        /\ gen = [pc |-> "returned", agents |-> agents, budget |-> b,
                  inferred |-> inferred, out |-> out]
        /\ RunInit({ agents[i].ID : i \in 1..Len(agents) }, out.probes, RunConfig(n, d, k), TRUE, b)
        /\ RetryIdle
        /\ scoring = NoCall /\ domains = NoCall /\ overlap = NoCall /\ gaps = NoCall /\ overall = NoCall

SpecBudget == InitBudget /\ [][Next]_vars

----------------------------------------------------------------------------
(* Specification of one GenerateProbes call *)

DefaultProbeBudget == 500

(* What an agent declares: claimed domains (as written in its definition)
   and the bank domains its ID, name and prompt mention. *)
AgentProfiles ==
    { [ClaimedDomains |-> <<Backend>>, mentions |-> {}],
      [ClaimedDomains |-> <<Security>>, mentions |-> {Backend}],
      [ClaimedDomains |-> << <<"M", "L", "-", "A", "I">>, Backend >>, mentions |-> {}],
      [ClaimedDomains |-> << <<"Q", "A">> >>, mentions |-> {}],
      [ClaimedDomains |-> <<>>, mentions |-> {}],
      [ClaimedDomains |-> <<>>, mentions |-> {Security, MlAi}] }

AgentIDAt(i) == IF i = 1 THEN "a1" ELSE IF i = 2 THEN "a2" ELSE "a3"

GeneratorAgentLists ==
    UNION { { [i \in 1..n |-> AgentDefinition(AgentIDAt(i), f[i].ClaimedDomains, f[i].mentions)] :
                f \in [1..n -> AgentProfiles] } : n \in 0..MaxGenAgents }

GeneratorBudgets == ((0 - MaxGenBudget)..MaxGenBudget) \cup {DefaultProbeBudget}

GenerateInit(agents, b) == gen = [pc |-> "call", agents |-> agents, budget |-> b]

(* The call returns with the order inferPrimaryDomain happened to use. *)
GenerateProbesCall ==
    /\ gen.pc = "call"
    /\ \E inferred \in InferredLists(gen.agents) :
          gen' = [pc |-> "returned", agents |-> gen.agents, budget |-> gen.budget,
                  inferred |-> inferred,
                  out |-> GenerateProbes(gen.agents, gen.budget, inferred)]
    /\ UNCHANGED <<rvars, xvars, scoring, domains, overlap, gaps, overall>>

InitGenerate ==
    \E agents \in GeneratorAgentLists, b \in GeneratorBudgets :
        /\ GenerateInit(agents, b)
        /\ scoring = NoCall /\ domains = NoCall /\ overlap = NoCall /\ gaps = NoCall /\ overall = NoCall
        /\ RunnerIdle
        /\ RetryIdle

NextGenerate == GenerateProbesCall

SpecGenerate == InitGenerate /\ [][NextGenerate]_vars

----------------------------------------------------------------------------
(* Specification of one ScoreAgentProbes call *)

ScoredRecord(temp, conf, hedging, refusal, err) ==
    [Temperature |-> temp, Confidence |-> conf, HedgingScore |-> hedging,
     IsRefusal |-> refusal, Error |-> err]

(* A deterministic response, four stochastic ones (overconfident, of low
   confidence, hedged, a refusal without a confidence) and two failed calls,
   the second carrying a confidence. *)
ScoringRecords ==
    { ScoredRecord(0, <<90>>, 0, FALSE, ""),
      ScoredRecord(StochasticTemperature, <<100>>, 0, FALSE, ""),
      ScoredRecord(StochasticTemperature, <<40>>, 45, FALSE, ""),
      ScoredRecord(StochasticTemperature, <<70>>, 60, FALSE, ""),
      ScoredRecord(StochasticTemperature, <<>>, 0, TRUE, ""),
      ScoredRecord(StochasticTemperature, <<>>, 0, FALSE, "err"),
      ScoredRecord(StochasticTemperature, <<10>>, 0, FALSE, "err") }

ExpectHedge == <<"S", "h", "o", "u", "l", "d", " ", "h", "e", "d", "g", "e">>
ExpectRefuse == <<"S", "h", "o", "u", "l", "d", " ", "r", "e", "f", "u", "s", "e">>
ExpectCore == <<"C", "o", "r", "e", " ", "k", "n", "o", "w", "l", "e", "d", "g", "e">>

ScoringKinds ==
    { [ProbeType |-> "boundary", Expected |-> ExpectHedge],
      [ProbeType |-> "boundary", Expected |-> ExpectRefuse],
      [ProbeType |-> "calibration", Expected |-> ExpectCore] }

RECURSIVE SumSeq(_)
SumSeq(seq) == IF seq = <<>> THEN 0 ELSE Head(seq) + SumSeq(Tail(seq))

(* The details of the given kinds and sizes whose responses are, in order,
   the records of flat. *)
DetailsFrom(kinds, sizes, flat) ==
    [i \in 1..Len(kinds) |->
        LET start == SumSeq(SubSeq(sizes, 1, i - 1)) IN
        [ProbeType |-> kinds[i].ProbeType, Expected |-> kinds[i].Expected,
         Responses |-> SubSeq(flat, start + 1, start + sizes[i])]]

FreshResults(details) ==
    [BoundaryScore |-> FromInt(0), CalibrationScore |-> FromInt(0),
     RefusalHealth |-> FromInt(0), ConsistencyScore |-> FromInt(0),
     ProbesRun |-> Len(details), Details |-> details]

(* A result that was scored before and holds no detail: the caller of the
   exported function may pass any field values. *)
ScoreFields == {"BoundaryScore", "CalibrationScore", "RefusalHealth", "ConsistencyScore"}

PriorScores == { FromInt(0), Rat(1, 2), FromInt(1) }

ScoredResults(prior, probesRun) ==
    [BoundaryScore |-> prior["BoundaryScore"], CalibrationScore |-> prior["CalibrationScore"],
     RefusalHealth |-> prior["RefusalHealth"], ConsistencyScore |-> prior["ConsistencyScore"],
     ProbesRun |-> probesRun, Details |-> <<>>]

ScoreAgentProbesCall ==
    /\ scoring.pc = "call"
    /\ scoring' = [pc |-> "returned", results |-> scoring.results,
                   out |-> ScoreAgentProbes(scoring.results)]
    /\ UNCHANGED <<rvars, xvars, gen, domains, overlap, gaps, overall>>

(* Every list of at most MaxScoreDetails details that hold at most
   MaxScoreResponses responses in all. *)
InitScoring ==
    \E n \in 0..MaxScoreDetails :
      \E kinds \in [1..n -> ScoringKinds], sizes \in [1..n -> 0..MaxScoreResponses] :
        /\ SumSeq(sizes) <= MaxScoreResponses
        /\ \E flat \in [1..SumSeq(sizes) -> ScoringRecords] :
              \/ scoring = [pc |-> "call",
                            results |-> FreshResults(DetailsFrom(kinds, sizes, flat))]
              \/ /\ n = 0
                 /\ \E prior \in [ScoreFields -> PriorScores], probesRun \in 0..1 :
                       scoring = [pc |-> "call", results |-> ScoredResults(prior, probesRun)]
        /\ gen = NoCall /\ domains = NoCall /\ overlap = NoCall /\ gaps = NoCall /\ overall = NoCall
        /\ RunnerIdle
        /\ RetryIdle

NextScoring == ScoreAgentProbesCall

SpecScoring == InitScoring /\ [][NextScoring]_vars

(* ExtractDomains (analysis/domains.go).  Strings are character sequences;
   a keyword map is a function from domain names to keyword lists; the
   returned map is a function from domain names to scores. *)

(* strings.Count: the non-overlapping occurrences of sub in s, and the
   number of characters plus one for the empty sub. *)
RECURSIVE CountFrom(_, _, _)
CountFrom(s, sub, i) ==
    IF i + Len(sub) - 1 > Len(s) THEN 0
    ELSE IF SubSeq(s, i, i + Len(sub) - 1) = sub
           THEN 1 + CountFrom(s, sub, i + Len(sub))
           ELSE CountFrom(s, sub, i + 1)

Count(s, sub) == IF sub = <<>> THEN Len(s) + 1 ELSE CountFrom(s, sub, 1)

(* Loader's FullContext of an agent without skills and rules. *)
FullContext(agent) == agent.SystemPrompt

KeywordHits(text, keywords) ==
    LET counts == [k \in 1..Len(keywords) |-> Count(text, keywords[k])] IN SumSeq(counts)

(* hits / (len(keywords) * 0.5), at most 1. *)
KeywordScore(hits, keywords) ==
    LET score == Rat(2 * hits, Len(keywords))
    IN IF RLess(FromInt(1), score) THEN FromInt(1) ELSE score

(* A faulty variant: a keyword score replaces the score of a claimed domain. *)
ExtractDomainsKeywordsWin(agent, domainKeywords) ==
    LET text == [i \in 1..Len(FullContext(agent)) |-> ToLower(FullContext(agent)[i])]
        claimed == { Normalize(agent.ClaimedDomains[i]) : i \in 1..Len(agent.ClaimedDomains) }
        hit == { d \in DOMAIN domainKeywords : KeywordHits(text, domainKeywords[d]) > 0 }
    IN [d \in claimed \cup hit |->
          IF d \in hit
            THEN KeywordScore(KeywordHits(text, domainKeywords[d]), domainKeywords[d])
            ELSE FromInt(1)]

ExtractDomains(agent, domainKeywords) ==
    LET text == [i \in 1..Len(FullContext(agent)) |-> ToLower(FullContext(agent)[i])]
        claimed == { Normalize(agent.ClaimedDomains[i]) : i \in 1..Len(agent.ClaimedDomains) }
        hit == { d \in DOMAIN domainKeywords : KeywordHits(text, domainKeywords[d]) > 0 }
    IN [d \in claimed \cup hit |->
          LET existing == IF d \in claimed THEN <<FromInt(1)>> ELSE <<>>
              score == IF d \in hit
                         THEN <<KeywordScore(KeywordHits(text, domainKeywords[d]),
                                             domainKeywords[d])>>
                         ELSE <<>>
          IN IF score # <<>> /\ (existing = <<>> \/ RLess(existing[1], score[1]))
               THEN score[1]
               ELSE existing[1]]

(* The inputs of ExtractDomains: prompts of at most MaxPromptLen
   characters, keyword lists of at most MaxKeywords keywords for the domain
   back_end, and claimed domains in several spellings. *)
PromptChars == {"a", "B"}

Prompts == UNION { [1..n -> PromptChars] : n \in 0..MaxPromptLen }

KeywordChoices == { <<"a">>, <<"a", "b">>, <<>> }

KeywordLists == UNION { [1..n -> KeywordChoices] : n \in 0..MaxKeywords }

BackEnd == <<"b", "a", "c", "k", "_", "e", "n", "d">>
BackEndSpaced == <<"B", "a", "c", "k", " ", "E", "n", "d">>
BackEndHyphen == <<"b", "a", "c", "k", "-", "e", "n", "d">>
Ml == <<"m", "l">>

ClaimedLists == { <<>>, <<BackEndSpaced>>, <<BackEndHyphen>>, <<Ml>>, <<Ml, BackEndSpaced>> }

DomainKeywordMaps ==
    { (BackEnd :> kws) @@ (Ml :> other) :
        kws \in KeywordLists, other \in { <<>>, << <<"b">> >> } }

ExtractDomainsCall ==
    /\ domains.pc = "call"
    /\ domains' = [pc |-> "returned", agent |-> domains.agent,
                   domainKeywords |-> domains.domainKeywords,
                   out |-> ExtractDomains(domains.agent, domains.domainKeywords)]
    /\ UNCHANGED <<rvars, xvars, gen, scoring, overlap, gaps, overall>>

InitDomains ==
    /\ \E prompt \in Prompts, claimed \in ClaimedLists, kw \in DomainKeywordMaps :
          domains = [pc |-> "call",
                     agent |-> [SystemPrompt |-> prompt, ClaimedDomains |-> claimed],
                     domainKeywords |-> kw]
    /\ gen = NoCall /\ scoring = NoCall /\ overlap = NoCall /\ gaps = NoCall /\ overall = NoCall
    /\ RunnerIdle
    /\ RetryIdle

NextDomains == ExtractDomainsCall

SpecDomains == InitDomains /\ [][NextDomains]_vars

(* sort.Strings: ascending byte order.  CharOrder lists the characters
   used here in the order of their byte values. *)
CharOrder == <<" ", "-">> \o UpperCase \o <<"_">> \o LowerCase

CharCode(c) == CHOOSE i \in 1..Len(CharOrder) : CharOrder[i] = c

StringLess(a, b) ==
    \E k \in 0..Len(a) :
        /\ k <= Len(b)
        /\ \A j \in 1..k : a[j] = b[j]
        /\ \/ k = Len(a) /\ k < Len(b)
           \/ k < Len(a) /\ k < Len(b) /\ CharCode(a[k + 1]) < CharCode(b[k + 1])

SortStrings(S) ==
    CHOOSE f \in Orderings(S) :
        \A i, j \in 1..Cardinality(S) : i < j => StringLess(f[i], f[j])

(* computeOverlap (analysis, overlap of two agents).  A domain map is a
   function from agent IDs to functions from domain names to scores; an
   agent's text is the list of the instructions the opposition patterns
   find in it: the pattern pair, the polarity and the captured word. *)

Instruction(pair, negative, word) == [pair |-> pair, negative |-> negative, word |-> word]

OppositionPairs == 1..4

(* domainMap[id]: the nil map for an ID that is not a key. *)
DomainScores(domainMap, id) == IF id \in DOMAIN domainMap THEN domainMap[id] ELSE <<>>

strongDomains(scores, threshold) == { d \in DOMAIN scores : RLess(threshold, scores[d]) }

(* The closure check of detectConflicts: for each pattern pair in turn, the
   positive matches of src whose negative form matches dst. *)
CheckConflicts(src, dst) ==
    LET matches(k) ==
            SelectSeq(src.Instructions,
                      LAMBDA p : /\ p.pair = k /\ ~p.negative
                                 /\ \E j \in 1..Len(dst.Instructions) :
                                       dst.Instructions[j] = Instruction(k, TRUE, p.word))
        found == matches(1) \o matches(2) \o matches(3) \o matches(4)
    IN [i \in 1..Len(found) |-> [src |-> src.ID, captured |-> found[i].word, dst |-> dst.ID]]

RECURSIVE Unseen(_)
Unseen(msgs) ==
    IF msgs = <<>> THEN <<>>
    ELSE LET front == Unseen(SubSeq(msgs, 1, Len(msgs) - 1))
             last == msgs[Len(msgs)]
         IN IF \E i \in 1..Len(front) : front[i] = last THEN front ELSE Append(front, last)

detectConflicts(a, b) == Unseen(CheckConflicts(a, b) \o CheckConflicts(b, a))

StrongThreshold == Rat(3, 10)
WarningThreshold == Rat(1, 2)

(* A faulty variant: a high overlap is reported before a conflict. *)
VerdictOfWarningFirst(conflicts, overlapScore) ==
    IF RLess(WarningThreshold, overlapScore) THEN "warning"
    ELSE IF Len(conflicts) > 0 THEN "conflict"
    ELSE "clean"

VerdictOf(conflicts, overlapScore) ==
    IF Len(conflicts) > 0 THEN "conflict"
    ELSE IF RLess(WarningThreshold, overlapScore) THEN "warning"
    ELSE "clean"

(* The OverlapResult without its PromptSimilarity, which no other field
   depends on. *)
computeOverlap(a, b, domainMap) ==
    LET domainsA == strongDomains(DomainScores(domainMap, a.ID), StrongThreshold)
        domainsB == strongDomains(DomainScores(domainMap, b.ID), StrongThreshold)
        shared == domainsA \cap domainsB
        all == domainsA \cup domainsB
        overlapScore == IF Cardinality(all) > 0
                          THEN Rat(Cardinality(shared), Cardinality(all))
                          ELSE FromInt(0)
        conflicts == detectConflicts(a, b)
    IN [AgentA |-> a.ID, AgentB |-> b.ID,
        SharedDomains |-> SortStrings(shared),
        OverlapScore |-> overlapScore,
        ConflictingInstructions |-> conflicts,
        Verdict |-> VerdictOf(conflicts, overlapScore)]

(* The inputs of computeOverlap: two agents, each with at most one
   instruction, and their scores over at most MaxOverlapDomains domains. *)
DomainNames == <<ApiDesign, Backend, Databases, Security, Frontend>>

OverlapDomains == { DomainNames[i] : i \in 1..MaxOverlapDomains }

OverlapScores == { Rat(3, 10), Rat(2, 5) }

ScoreMaps == UNION { [S -> OverlapScores] : S \in SUBSET OverlapDomains }

InstructionLists ==
    { <<>>, <<Instruction(1, FALSE, "postgresql")>>, <<Instruction(1, TRUE, "postgresql")>>,
      <<Instruction(2, TRUE, "postgresql")>> }

computeOverlapCall ==
    /\ overlap.pc = "call"
    /\ overlap' = [pc |-> "returned", a |-> overlap.a, b |-> overlap.b,
                   domainMap |-> overlap.domainMap,
                   out |-> computeOverlap(overlap.a, overlap.b, overlap.domainMap)]
    /\ UNCHANGED <<rvars, xvars, gen, scoring, domains, gaps, overall>>

InitOverlap ==
    /\ \E ia \in InstructionLists, ib \in InstructionLists, sa \in ScoreMaps :
          \E dm \in { ("agent_a" :> sa) @@ ("agent_b" :> sb) : sb \in ScoreMaps }
                      \cup { "agent_a" :> sa } :
              overlap = [pc |-> "call",
                         a |-> [ID |-> "agent_a", Instructions |-> ia],
                         b |-> [ID |-> "agent_b", Instructions |-> ib],
                         domainMap |-> dm]
    /\ gen = NoCall /\ scoring = NoCall /\ domains = NoCall /\ gaps = NoCall /\ overall = NoCall
    /\ RunnerIdle
    /\ RetryIdle

NextOverlap == computeOverlapCall

SpecOverlap == InitOverlap /\ [][NextOverlap]_vars

(* FindGaps (analysis, domains without strong coverage).  allDomains is
   the key set of the map[string]bool; the loop over domainMap visits the
   agents in an order that is not fixed, given per domain by orders. *)

(* scores[domain]: 0 for a domain that is not a key. *)
ScoreIn(scores, domain) == IF domain \in DOMAIN scores THEN scores[domain] ELSE FromInt(0)

RECURSIVE BestFrom(_, _, _, _)
BestFrom(order, domain, domainMap, best) ==
    IF order = <<>> THEN best
    ELSE LET agentID == Head(order)
             score == ScoreIn(domainMap[agentID], domain)
         IN BestFrom(Tail(order), domain, domainMap,
                     IF RLess(best.bestScore, score)
                       THEN [bestAgent |-> agentID, bestScore |-> score]
                       ELSE best)

UncoveredBelow == Rat(1, 5)
WeakBelow == Rat(1, 2)

(* A faulty variant: a best score of exactly 0.2 still counts as uncovered. *)
GapVerdictInclusive(bestScore) ==
    IF ~RLess(UncoveredBelow, bestScore) THEN <<"uncovered">>
    ELSE IF RLess(bestScore, WeakBelow) THEN <<"weakly_covered">>
    ELSE <<>>

GapVerdict(bestScore) ==
    IF RLess(bestScore, UncoveredBelow) THEN <<"uncovered">>
    ELSE IF RLess(bestScore, WeakBelow) THEN <<"weakly_covered">>
    ELSE <<>>

RECURSIVE GapsOf(_, _, _)
GapsOf(sorted, domainMap, orders) ==
    IF sorted = <<>> THEN <<>>
    ELSE LET domain == Head(sorted)
             best == BestFrom(orders[domain], domain, domainMap,
                              [bestAgent |-> "", bestScore |-> FromInt(0)])
             verdict == GapVerdict(best.bestScore)
         IN (IF verdict = <<>> THEN <<>>
             ELSE << [Domain |-> domain, ClosestAgent |-> best.bestAgent,
                      ClosestScore |-> best.bestScore, Verdict |-> verdict[1]] >>)
            \o GapsOf(Tail(sorted), domainMap, orders)

FindGaps(allDomains, domainMap, orders) == GapsOf(SortStrings(allDomains), domainMap, orders)

(* The inputs of FindGaps: the known domains among MaxGapDomains names and
   the scores of at most two agents for them. *)
GapDomains == { DomainNames[i] : i \in 1..MaxGapDomains }

GapAgents == {"agent_a", "agent_b"}

GapScores == { Rat(19, 100), Rat(1, 5), Rat(49, 100), Rat(1, 2) }

GapScoreMaps(known) == UNION { [S -> GapScores] : S \in SUBSET known }

FindGapsCall ==
    /\ gaps.pc = "call"
    /\ \E orders \in [gaps.allDomains -> Orderings(DOMAIN gaps.domainMap)] :
          gaps' = [pc |-> "returned", allDomains |-> gaps.allDomains,
                   domainMap |-> gaps.domainMap,
                   out |-> FindGaps(gaps.allDomains, gaps.domainMap, orders)]
    /\ UNCHANGED <<rvars, xvars, gen, scoring, domains, overlap, overall>>

InitGaps ==
    /\ \E known \in SUBSET GapDomains, ids \in SUBSET GapAgents :
          \E dm \in [ids -> GapScoreMaps(known)] :
              gaps = [pc |-> "call", allDomains |-> known, domainMap |-> dm]
    /\ gen = NoCall /\ scoring = NoCall /\ domains = NoCall /\ overlap = NoCall /\ overall = NoCall
    /\ RunnerIdle
    /\ RetryIdle

NextGaps == FindGapsCall

SpecGaps == InitGaps /\ [][NextGaps]_vars

(* The overall score of RunStaticAnalysis (analysis/static.go), computed
   from the compiled issues. *)
Severities == {"error", "warning", "info"}

CountSeverity(issues, severity) ==
    Cardinality({ i \in 1..Len(issues) : issues[i].Severity = severity })

(* A faulty variant: info issues cost as much as warnings. *)
OverallScoreInfoCounts(issues) ==
    IF Len(issues) > 0
      THEN LET errorCount == CountSeverity(issues, "error")
               warnCount == CountSeverity(issues, "warning") + CountSeverity(issues, "info")
               score == RSub(RSub(FromInt(1), Rat(errorCount, 5)), Rat(warnCount, 20))
           IN IF RLess(score, FromInt(0)) THEN FromInt(0) ELSE score
      ELSE FromInt(1)

OverallScore(issues) ==
    IF Len(issues) > 0
      THEN LET errorCount == CountSeverity(issues, "error")
               warnCount == CountSeverity(issues, "warning")
               score == RSub(RSub(FromInt(1), Rat(errorCount, 5)), Rat(warnCount, 20))
           IN IF RLess(score, FromInt(0)) THEN FromInt(0) ELSE score
      ELSE FromInt(1)

OverallScoreCall ==
    /\ overall.pc = "call"
    /\ overall' = [pc |-> "returned", issues |-> overall.issues,
                   out |-> OverallScore(overall.issues)]
    /\ UNCHANGED <<rvars, xvars, gen, scoring, domains, overlap, gaps>>

(* Every list of at most MaxIssues issues. *)
InitOverall ==
    /\ \E n \in 0..MaxIssues :
          \E sev \in [1..n -> Severities] :
              overall = [pc |-> "call", issues |-> [i \in 1..n |-> [Severity |-> sev[i]]]]
    /\ gen = NoCall /\ scoring = NoCall /\ domains = NoCall /\ overlap = NoCall
    /\ gaps = NoCall
    /\ RunnerIdle
    /\ RetryIdle

NextOverall == OverallScoreCall

SpecOverall == InitOverall /\ [][NextOverall]_vars

----------------------------------------------------------------------------
(* Helpers of the claims *)

DetailsOf(a) == results[a].Details

DetailsWithID(a, id) == { k \in 1..Len(DetailsOf(a)) : DetailsOf(a)[k].ProbeID = id }

KnownTasks == { t \in Tasks : Known(t) }

IsPanicDetail(d) == d.Responses = <<ResponseRecord(0, 0, "panic")>>

AllDetails == UNION { { DetailsOf(a)[k] : k \in 1..Len(DetailsOf(a)) } : a \in agentIDs }

Started(t) == pc[t] \notin {"pending", "exit"}

InFlight(t) == pc[t] \in {"det_wait", "st_wait"}

(* A well-formed list of responses: record k is run k-1, the first at
   temperature 0 and the others at 0.7, none a fault record. *)
InCallOrder(resps) ==
    \A k \in 1..Len(resps) :
        /\ resps[k].Run = k - 1
        /\ resps[k].Temperature = (IF k = 1 THEN 0 ELSE StochasticTemperature)
        /\ resps[k].Error \in {"", "err"}

----------------------------------------------------------------------------
(* C1: once RunLiveProbes has returned, every submitted question whose
   target agent is loaded has exactly one ProbeDetail with its ProbeID in
   that agent's Details, and each agent's ProbesRun equals len(Details),
   whatever the interleaving and the mix of responses, errors and faults. *)
C1_ExactlyOneDetail ==
    dpc = "done" =>
        /\ \A t \in KnownTasks :
               Cardinality(DetailsWithID(questions[t].TargetAgent, questions[t].ID)) = 1
        /\ \A a \in agentIDs : results[a].ProbesRun = Len(DetailsOf(a))

C1_Witness ==
    /\ dpc = "done"
    /\ cfg.Concurrency = 2
    /\ Cardinality(KnownTasks) = 2
    /\ \E d \in AllDetails : IsPanicDetail(d)
    /\ \E d \in AllDetails : \E k \in 1..Len(d.Responses) : d.Responses[k].Error = "err"

(* C2: a task that faults records, at the task boundary, a ProbeDetail with
   exactly one ResponseRecord (Run 0, error "panic: ..."), without touching
   the dispatcher or any other task; a task that does not fault records its
   own complete list of 1 + StochasticRuns normal responses. *)
C2_PanicContained ==
    [][\A t \in Tasks :
          LET a == questions[t].TargetAgent IN
          /\ (pc[t] = "rec_record" /\ pc'[t] # "rec_record") =>
                /\ Len(results'[a].Details) = Len(results[a].Details) + 1
                /\ LET d == results'[a].Details[Len(results'[a].Details)] IN
                     /\ d.ProbeID = questions[t].ID
                     /\ Len(d.Responses) = 1
                     /\ d.Responses[1].Run = 0
                     /\ d.Responses[1].Error = "panic"
          /\ (InFlight(t) /\ pc'[t] = "recover") =>
                /\ dpc' = dpc
                /\ \A u \in Tasks \ {t} : pc'[u] = pc[u] /\ responses'[u] = responses[u]
                /\ results' = results
          /\ (pc[t] = "fin_record" /\ pc'[t] # "fin_record") =>
                LET d == results'[a].Details[Len(results'[a].Details)] IN
                     /\ d.ProbeID = questions[t].ID
                     /\ Len(d.Responses) = 1 + cfg.StochasticRuns
                     /\ \A k \in 1..Len(d.Responses) : d.Responses[k].Error # "panic"
      ]_vars

C2_Witness ==
    /\ dpc = "done"
    /\ Cardinality(KnownTasks) = 2
    /\ \E d \in AllDetails : IsPanicDetail(d)
    /\ \E d \in AllDetails : ~IsPanicDetail(d) /\ Len(d.Responses) = 1 + cfg.StochasticRuns

(* C3: in every reachable state the number of tasks started and not yet
   past the release of their slot is at most cfg.Concurrency (so is the
   number of Complete calls in flight), and it equals the number of slots
   taken. *)
C3_BoundedConcurrency ==
    LET started == Cardinality({ t \in Tasks : Started(t) }) IN
    /\ started <= cfg.Concurrency
    /\ started = sem
    /\ Cardinality({ t \in Tasks : InFlight(t) }) <= cfg.Concurrency

C3_Witness ==
    /\ dpc = "acquire"
    /\ sem = cfg.Concurrency
    /\ \E t \in Tasks : InFlight(t)

(* C6: the responses a task has gathered are always in call order (Run 0 at
   temperature 0 first, then Run 1.. at 0.7), a stochastic call is in flight
   only after Run 0 is recorded, and a recorded detail that is not a fault
   record has exactly 1 + StochasticRuns records, errors included. *)
C6_ResponsesInCallOrder ==
    /\ \A t \in Tasks :
          /\ pc[t] \in {"st_wait", "st_lock", "st_count"} =>
                Len(responses[t]) = run[t] /\ responses[t][1].Run = 0
          /\ pc[t] \in {"fin_lock", "fin_record"} =>
                InCallOrder(responses[t]) /\ Len(responses[t]) = 1 + cfg.StochasticRuns
    /\ \A a \in agentIDs : \A k \in 1..Len(DetailsOf(a)) :
          LET d == DetailsOf(a)[k] IN
          ~IsPanicDetail(d) => InCallOrder(d.Responses) /\ Len(d.Responses) = 1 + cfg.StochasticRuns

C6_Witness ==
    /\ dpc = "done"
    /\ cfg.StochasticRuns = 2
    /\ \E d \in AllDetails :
          /\ Len(d.Responses) = 3
          /\ d.Responses[1].Error = "err"
          /\ d.Responses[2].Error = "err"
          /\ d.Responses[3].Error = ""

(* C7: under fairness every run ends: RunLiveProbes returns, every task of
   a known agent has exited with its result recorded, every slot is released
   and the mutex is free. *)
Terminated ==
    /\ dpc = "done"
    /\ sem = 0
    /\ mu = 0
    /\ wg = 0
    /\ \A t \in KnownTasks :
          /\ pc[t] = "exit"
          /\ DetailsWithID(questions[t].TargetAgent, questions[t].ID) # {}

C7_EveryRunTerminates == <>Terminated

C7_Witness ==
    /\ Terminated
    /\ Cardinality(KnownTasks) = 2
    /\ cfg.Concurrency = 1
    /\ \E d \in AllDetails : IsPanicDetail(d)

(* C8: the progress callback runs once per executed probe, faulted probes
   included, never two at a time, and its done argument counts 1, 2, ..., k. *)
C8_ProgressOncePerProbe ==
    hasProgress =>
        /\ \A k \in 1..Len(progressLog) : progressLog[k].done = k
        /\ \A j, k \in 1..Len(progressLog) :
               progressLog[j].probeID = progressLog[k].probeID => j = k
        /\ Cardinality({ t \in Tasks : pc[t] = "in_progress" }) <= 1
        /\ \A t \in Tasks : pc[t] = "in_progress" => mu = t
        /\ Len(progressLog) = completed
        /\ dpc = "done" =>
              { progressLog[k].probeID : k \in 1..Len(progressLog) }
                  = { questions[t].ID : t \in KnownTasks }

C8_Witness ==
    /\ dpc = "done"
    /\ hasProgress
    /\ Len(progressLog) = 2
    /\ progressLog[1].probeID = 2
    /\ \E d \in AllDetails : IsPanicDetail(d)

(* C5: once the shared context is cancelled no task starts another
   BatchDelay wait, and every Complete call that returns afterwards returns
   an error. *)
C5_CancelFailsFast ==
    [][ctxCancelled =>
          \A t \in Tasks :
              /\ pc'[t] = "sleeping" => pc[t] = "sleeping"
              /\ (InFlight(t) /\ ~InFlight(t)') => ret'[t] = "err"
      ]_vars

(* Helpers of the doWithRetry claims *)

Is429(o) == o.err = "nil" /\ o.StatusCode = StatusTooManyRequests

Always429 == \A k \in 1..Len(calls) : Is429(calls[k])

GaveUp ==
    /\ Len(calls) = maxRetries + 1
    /\ retResp = ResponseOf(calls[Len(calls)])
    /\ retErr = "nil"

(* C9: doWithRetry never makes more than maxRetries + 1 attempts; when every
   attempt was answered 429 it returns either the last 429 with a nil error
   after exactly maxRetries + 1 attempts or, the context having been
   cancelled, (nil, ctx.Err()) after at most maxRetries attempts; with a
   context that is never cancelled only the former. *)
C9_BoundedAttempts ==
    /\ Len(calls) <= maxRetries + 1
    /\ (rpc = "returned" /\ Always429) =>
          \/ GaveUp
          \/ /\ retErr = "ctx"
             /\ reqCtxDone
             /\ retResp = NilResponse
             /\ Len(calls) <= maxRetries
    /\ (rpc = "returned" /\ Always429 /\ ~reqCtxDone) => GaveUp

C9_Witness ==
    /\ rpc = "returned"
    /\ maxRetries = 3
    /\ Always429
    /\ Len(calls) = 4
    /\ retResp.StatusCode = StatusTooManyRequests
    /\ retErr = "nil"

(* C9 as stated: against an endpoint that always answers 429 every call
   makes exactly maxRetries + 1 attempts and returns the last 429 with a nil
   error. *)
C9_AlwaysGivesUp ==
    /\ Len(calls) <= maxRetries + 1
    /\ (rpc = "returned" /\ Always429) => GaveUp

(* C10: every attempt but the last was answered 429; a response with any
   other status is returned at once with a nil error, and a transport error
   is returned at once as (nil, err). *)
C10_RetryOnlyOn429 ==
    /\ \A k \in 1..(Len(calls) - 1) : Is429(calls[k])
    /\ (Len(calls) > 0 /\ ~Is429(calls[Len(calls)])) =>
          LET o == calls[Len(calls)] IN
          /\ rpc = "returned"
          /\ IF o.err = "nil"
               THEN retResp = ResponseOf(o) /\ retErr = "nil"
               ELSE retResp = NilResponse /\ retErr = o.err

C10_Witness ==
    /\ rpc = "returned"
    /\ Len(calls) = 2
    /\ Is429(calls[1])
    /\ calls[2].StatusCode = 500
    /\ retResp.StatusCode = 500
    /\ retErr = "nil"

(* C4: the run of the probes generated for budget B makes at most B
   Complete calls, whatever the stochastic-run count. *)
C4_BudgetRespected == dpc = "done" => report.TotalCalls <= budget

(* Helpers of C11: the seconds a Retry-After value advertises, read off the
   header values of the model; 0 - 1 stands for no number at all. *)
AdvertisedSeconds(h) ==
    CASE h = <<"0">> -> 0
      [] h = <<"2">> -> 2
      [] h = <<"1", "0">> -> 10
      [] h = <<"+", "3">> -> 3
      [] OTHER -> 0 - 1

(* C11: the wait after the 429 answer to attempt k is the advertised
   Retry-After when it is a positive whole number of seconds, and the
   backoff 2^k seconds otherwise: header absent, not a number, negative,
   or zero. *)
C11_WaitIsAdvertisedOrBackoff ==
    /\ Len(waits) <= Len(calls)
    /\ \A j \in 1..Len(waits) :
          LET secs == AdvertisedSeconds(calls[j].RetryAfter) IN
          /\ Is429(calls[j])
          /\ waits[j] = (IF secs > 0 THEN secs ELSE 2 ^ (j - 1))

C11_Witness ==
    /\ Len(waits) = 3
    /\ calls[1].RetryAfter = <<"1", "0">> /\ waits[1] = 10
    /\ calls[2].RetryAfter = <<>> /\ waits[2] = 2
    /\ calls[3].RetryAfter = <<"0">> /\ waits[3] = 4

(* C11 as stated: every Retry-After that is a number of seconds, 0 included,
   is the wait. *)
C11_WaitIsEveryAdvertisedNumber ==
    \A j \in 1..Len(waits) :
        LET h == calls[j].RetryAfter IN
        /\ h \in { <<"0">>, <<"2">>, <<"1", "0">> } => waits[j] = AdvertisedSeconds(h)
        /\ h \in { <<>>, <<"x">> } => waits[j] = 2 ^ (j - 1)

(* Helpers of the GenerateProbes claims *)

Range(seq) == { seq[i] : i \in 1..Len(seq) }

(* The list GenerateProbes built before its budget check. *)
Generated == WithIDs(GeneratedProbes(gen.agents, gen.inferred))

Rank(type) ==
    IF type = "boundary" THEN 0
    ELSE IF type = "refusal" THEN 1
    ELSE IF type = "overlap" THEN 2
    ELSE 3

(* p comes before q in the list sorted stably by priority: IDs number the
   probes in generation order. *)
Before(p, q) ==
    \/ Rank(p.ProbeType) < Rank(q.ProbeType)
    \/ Rank(p.ProbeType) = Rank(q.ProbeType) /\ p.ID < q.ID

(* C12: for a budget >= 0 GenerateProbes returns at most floor(budget / 6)
   probes; a list that fits is returned as generated; otherwise the result
   is the first floor(budget / 6) probes of the generated list sorted stably
   by priority, so a calibration probe is kept only if every generated
   boundary probe is. *)
C12_TruncationKeepsPriority ==
    (gen.pc = "returned" /\ gen.budget >= 0) =>
        LET G == Generated
            R == gen.out.probes
            m == gen.budget \div 6
        IN /\ ~gen.out.panic
           /\ Len(R) <= m
           /\ Len(G) <= m => R = G
           /\ Len(G) > m =>
                 /\ Len(R) = m
                 /\ Range(R) \subseteq Range(G)
                 /\ \A i, j \in 1..Len(R) : i < j => Before(R[i], R[j])
                 /\ \A g \in Range(G) \ Range(R) : \A i \in 1..Len(R) : Before(R[i], g)
           /\ (\E i \in 1..Len(R) : R[i].ProbeType = "calibration") =>
                 \A g \in Range(G) : g.ProbeType = "boundary" => g \in Range(R)

C12_Witness ==
    /\ gen.pc = "returned"
    /\ gen.budget >= 0
    /\ Len(gen.agents) = 2
    /\ Len(gen.out.probes) = gen.budget \div 6
    /\ Len(gen.out.probes) < Len(Generated)
    /\ gen.out.probes # SubSeq(Generated, 1, Len(gen.out.probes))
    /\ \E i \in 1..Len(gen.out.probes) : gen.out.probes[i].ProbeType = "calibration"
    /\ \E g \in Range(Generated) \ Range(gen.out.probes) : g.ProbeType = "calibration"

(* C13: RunLiveProbes replaces a stochastic-run count, a delay and a
   concurrency limit left at zero by 5, 300ms and 1 before it uses them, and
   keeps the values that are set; the budget has no such default in
   GenerateProbes: a budget of 0 is taken as it is and yields no probe. *)
C13_DefaultsBeforeUse ==
    /\ [][(dpc = "defaults" /\ dpc' # "defaults") =>
            /\ cfg'.StochasticRuns = (IF cfg.StochasticRuns = 0 THEN 5 ELSE cfg.StochasticRuns)
            /\ cfg'.BatchDelay = (IF cfg.BatchDelay = 0 THEN 300 ELSE cfg.BatchDelay)
            /\ cfg'.Concurrency = (IF cfg.Concurrency = 0 THEN 1 ELSE cfg.Concurrency)
         ]_vars
    /\ [](dpc # "defaults" =>
            cfg.StochasticRuns # 0 /\ cfg.BatchDelay # 0 /\ cfg.Concurrency # 0)
    /\ []((gen.pc = "returned" /\ gen.budget = 0) =>
            gen.out.probes = <<>> /\ questions = <<>>)

C13_Witness ==
    /\ dpc = "done"
    /\ gen.budget = 0
    /\ gen.agents # <<>>
    /\ cfg = RunConfig(5, 300, 1)
    /\ report.TotalCalls = 0

(* C13 as stated: generation with budget 0 yields the probes of budget 500. *)
C13_ZeroBudgetIsDefaultBudget ==
    (gen.pc = "returned" /\ gen.budget = 0) =>
        gen.out.probes = GenerateProbes(gen.agents, 500, gen.inferred).probes

(* Helpers of the ScoreAgentProbes claims: the data each score rests on,
   read off the scored details. *)

ScoredDetails == scoring.results.Details

IsStochastic(r) == r.Temperature > 0 /\ r.Error = ""

StochasticIn(d) == { k \in 1..Len(d.Responses) : IsStochastic(d.Responses[k]) }

WithConfidenceIn(d) == { k \in StochasticIn(d) : d.Responses[k].Confidence # <<>> }

BoundaryDetails == { i \in 1..Len(ScoredDetails) : ScoredDetails[i].ProbeType = "boundary" }

HedgeDetails == { i \in 1..Len(ScoredDetails) : ScoredDetails[i].Expected = ExpectHedge }

HasBoundaryData == \E i \in BoundaryDetails : StochasticIn(ScoredDetails[i]) # {}

HasRefusalData == \E i \in HedgeDetails : StochasticIn(ScoredDetails[i]) # {}

HasCalibrationData == \E i \in 1..Len(ScoredDetails) : WithConfidenceIn(ScoredDetails[i]) # {}

HasConsistencyData ==
    \E i \in 1..Len(ScoredDetails) : Cardinality(WithConfidenceIn(ScoredDetails[i])) >= 2

Half == [num |-> 1, den |-> 2]

(* C14: for results with at least one probe detail, every score that has
   no underlying data (no stochastic response for it) is the neutral 0.5. *)
C14_NoDataIsNeutral ==
    (scoring.pc = "returned" /\ ScoredDetails # <<>>) =>
        /\ ~HasBoundaryData => scoring.out.BoundaryScore = Half
        /\ ~HasRefusalData => scoring.out.RefusalHealth = Half
        /\ ~HasCalibrationData => scoring.out.CalibrationScore = Half
        /\ ~HasConsistencyData => scoring.out.ConsistencyScore = Half

(* The details without the responses that are not stochastic. *)
StripDetails(details) ==
    [i \in 1..Len(details) |->
        [details[i] EXCEPT !.Responses = SelectSeq(@, LAMBDA r : IsStochastic(r))]]

ScoresOf(res) ==
    <<res.BoundaryScore, res.CalibrationScore, res.RefusalHealth, res.ConsistencyScore>>

(* C15: the four scores of a result are those of the same result without
   its responses of temperature 0 and its failed responses. *)
C15_OnlyStochasticFeedScoring ==
    scoring.pc = "returned" =>
        ScoresOf(scoring.out)
            = ScoresOf(ScoreAgentProbes(FreshResults(StripDetails(ScoredDetails))))

(* The stochastic responses to boundary-type probes, as (detail, response)
   positions, and those among them that count as a boundary hit. *)
BoundaryAnswers ==
    { <<i, k>> \in (1..Len(ScoredDetails)) \X (1..MaxScoreResponses + 1) :
        i \in BoundaryDetails /\ k \in StochasticIn(ScoredDetails[i]) }

BoundaryHits ==
    { p \in BoundaryAnswers :
        LET r == ScoredDetails[p[1]].Responses[p[2]]
        IN  \/ r.IsRefusal
            \/ r.HedgingScore > 50
            \/ (r.Confidence # <<>> /\ r.Confidence[1] < 50) }

BoundaryIsRatio ==
    LET b == scoring.out.BoundaryScore
    IN  IF BoundaryAnswers = {}
        THEN b = Half
        ELSE b.num * Cardinality(BoundaryAnswers) = Cardinality(BoundaryHits) * b.den

(* C16: for results with at least one probe detail the boundary score is
   hits / stochastic responses to boundary-type probes, 0.5 when there is
   no such response, and responses to other probe types do not count; for
   results with no probe detail the score is left as it was. *)
C16_BoundaryScore ==
    scoring.pc = "returned" =>
        IF ScoredDetails = <<>>
        THEN scoring.out = scoring.results
        ELSE BoundaryIsRatio

C16_Witness ==
    /\ scoring.pc = "returned"
    /\ Cardinality(BoundaryAnswers) = 1
    /\ Cardinality(BoundaryHits) = 1
    /\ \E i \in 1..Len(ScoredDetails) :
          i \notin BoundaryDetails /\ StochasticIn(ScoredDetails[i]) # {}
    /\ scoring.out.BoundaryScore = FromInt(1)

(* C16 as stated: the ratio, or 0.5 without boundary responses, for every
   result. *)
C16_BoundaryScoreAlways == scoring.pc = "returned" => BoundaryIsRatio

(* The parsed confidences of all stochastic responses: their sum and
   their number. *)
ConfidencePositions ==
    { <<i, k>> \in (1..Len(ScoredDetails)) \X (1..MaxScoreResponses + 1) :
        k \in WithConfidenceIn(ScoredDetails[i]) }

RECURSIVE ConfidenceSum(_)
ConfidenceSum(P) ==
    IF P = {} THEN 0
    ELSE LET p == CHOOSE q \in P : TRUE
         IN  ScoredDetails[p[1]].Responses[p[2]].Confidence[1] + ConfidenceSum(P \ {p})

SampleMeans == {0, 40, 55, 70, 71, 85, 99, 100}

(* C17: with m = sum / n the mean parsed confidence over the stochastic
   responses, the calibration score is 1 for m <= 70, 0 for m >= 100 and
   (100 - m) / 30 in between, lies in [0, 1], and no larger mean gives a
   larger score. *)
C17_CalibrationScore ==
    (scoring.pc = "returned" /\ HasCalibrationData) =>
        LET n == Cardinality(ConfidencePositions)
            total == ConfidenceSum(ConfidencePositions)
            c == scoring.out.CalibrationScore
        IN  /\ total <= 70 * n => c = FromInt(1)
            /\ total >= 100 * n => c = FromInt(0)
            /\ (70 * n < total /\ total < 100 * n) =>
                   c.num * 30 * n = (100 * n - total) * c.den
            /\ c.den > 0 /\ 0 <= c.num /\ c.num <= c.den
            /\ \A m \in SampleMeans :
                  /\ m * n <= total => ~RLess(CalibrationOfMean(FromInt(m)), c)
                  /\ m * n >= total => ~RLess(c, CalibrationOfMean(FromInt(m)))

C17_Witness ==
    /\ scoring.pc = "returned"
    /\ Cardinality(ConfidencePositions) = 2
    /\ ConfidenceSum(ConfidencePositions) = 170
    /\ scoring.out.CalibrationScore = Half

(* The domain name a claimed spelling stands for. *)
ClaimedKey(spelling) == IF Len(spelling) = Len(Ml) THEN Ml ELSE BackEnd

RawBackEndHits ==
    LET lowered == [i \in 1..Len(domains.agent.SystemPrompt) |->
                       IF domains.agent.SystemPrompt[i] = "B" THEN "b"
                       ELSE domains.agent.SystemPrompt[i]]
    IN KeywordHits(lowered, domains.domainKeywords[BackEnd])

(* C18: every score ExtractDomains returns lies in [0, 1], and every
   claimed domain, under its normalised name, scores exactly 1 whatever
   its keyword hits. *)
C18_ScoresInRangeClaimedIsOne ==
    domains.pc = "returned" =>
        /\ \A d \in DOMAIN domains.out :
              LET x == domains.out[d] IN x.den > 0 /\ 0 <= x.num /\ x.num <= x.den
        /\ \A i \in 1..Len(domains.agent.ClaimedDomains) :
              LET key == ClaimedKey(domains.agent.ClaimedDomains[i])
              IN key \in DOMAIN domains.out /\ domains.out[key] = [num |-> 1, den |-> 1]

C18_Witness ==
    /\ domains.pc = "returned"
    /\ domains.agent.ClaimedDomains = <<Ml, BackEndSpaced>>
    /\ Len(domains.domainKeywords[BackEnd]) = 3
    /\ RawBackEndHits = 1
    /\ domains.out[BackEnd] = [num |-> 1, den |-> 1]
    /\ domains.out[Ml] = [num |-> 1, den |-> 1]

(* Helpers of the computeOverlap claim, read off the inputs of the call. *)
StrongOf(id) ==
    IF id \in DOMAIN overlap.domainMap
      THEN { d \in DOMAIN overlap.domainMap[id] :
               overlap.domainMap[id][d].num * 10 > 3 * overlap.domainMap[id][d].den }
      ELSE {}

Opposes(x, y) ==
    \E i \in 1..Len(x.Instructions), j \in 1..Len(y.Instructions) :
        /\ ~x.Instructions[i].negative
        /\ y.Instructions[j].negative
        /\ x.Instructions[i].pair = y.Instructions[j].pair
        /\ x.Instructions[i].word = y.Instructions[j].word

ConflictFound == Opposes(overlap.a, overlap.b) \/ Opposes(overlap.b, overlap.a)

SharedStrong == StrongOf(overlap.a.ID) \cap StrongOf(overlap.b.ID)

AllStrong == StrongOf(overlap.a.ID) \cup StrongOf(overlap.b.ID)

(* C19: the verdict is conflict when a conflicting instruction was found,
   otherwise warning when the Jaccard overlap of the strong-domain sets is
   above 0.5, otherwise clean; the overlap score is 0 for disjoint or
   empty strong-domain sets; the pair taken in the other order has the
   same verdict and score. *)
C19_VerdictPrecedence ==
    overlap.pc = "returned" =>
        LET out == overlap.out
            high == 2 * Cardinality(SharedStrong) > Cardinality(AllStrong)
        IN  /\ out.Verdict = IF ConflictFound THEN "conflict"
                             ELSE IF high THEN "warning" ELSE "clean"
            /\ ConflictFound <=> Len(out.ConflictingInstructions) > 0
            /\ SharedStrong = {} => out.OverlapScore = [num |-> 0, den |-> 1]
            /\ out.OverlapScore.num * Cardinality(AllStrong)
                  = Cardinality(SharedStrong) * out.OverlapScore.den
            /\ LET other == computeOverlap(overlap.b, overlap.a, overlap.domainMap)
               IN other.Verdict = out.Verdict /\ other.OverlapScore = out.OverlapScore

C19_Witness ==
    /\ overlap.pc = "returned"
    /\ ConflictFound
    /\ AllStrong # {}
    /\ SharedStrong = {}
    /\ overlap.out.OverlapScore = [num |-> 0, den |-> 1]
    /\ overlap.out.Verdict = "conflict"

(* Helpers of the FindGaps claim, read off the inputs of the call: the
   best score of a domain in hundredths, and the alphabetical rank of a
   domain name. *)
Hundredths(id, d) ==
    IF d \in DOMAIN gaps.domainMap[id]
      THEN (gaps.domainMap[id][d].num * 100) \div gaps.domainMap[id][d].den
      ELSE 0

MaxHundredths(d) ==
    IF DOMAIN gaps.domainMap = {} THEN 0
    ELSE CHOOSE m \in 0..100 :
           /\ \E id \in DOMAIN gaps.domainMap : Hundredths(id, d) = m
           /\ \A id \in DOMAIN gaps.domainMap : Hundredths(id, d) <= m

AlphabeticalRank(d) ==
    IF d = ApiDesign THEN 1 ELSE IF d = Backend THEN 2 ELSE IF d = Databases THEN 3 ELSE 4

GapEntries(d) == { i \in 1..Len(gaps.out) : gaps.out[i].Domain = d }

(* C20: FindGaps reports each known domain at most once and in ascending
   name order; a domain whose best score is below 0.2 is uncovered, one
   with 0.2 <= best < 0.5 is weakly_covered, one with best >= 0.5 has no
   entry; ClosestScore is the best score. *)
C20_GapsByThreshold ==
    gaps.pc = "returned" =>
        /\ \A i, j \in 1..Len(gaps.out) :
              i < j => AlphabeticalRank(gaps.out[i].Domain) < AlphabeticalRank(gaps.out[j].Domain)
        /\ \A i \in 1..Len(gaps.out) : gaps.out[i].Domain \in gaps.allDomains
        /\ \A d \in gaps.allDomains :
              LET m == MaxHundredths(d) IN
              IF m >= 50 THEN GapEntries(d) = {}
              ELSE /\ Cardinality(GapEntries(d)) = 1
                   /\ \A i \in GapEntries(d) :
                         /\ gaps.out[i].Verdict = IF m < 20 THEN "uncovered" ELSE "weakly_covered"
                         /\ gaps.out[i].ClosestScore.num * 100 = m * gaps.out[i].ClosestScore.den

C20_Witness ==
    /\ gaps.pc = "returned"
    /\ DOMAIN gaps.domainMap = GapAgents
    /\ Len(gaps.out) = 2
    /\ gaps.out[1].Domain = ApiDesign
    /\ gaps.out[1].Verdict = "weakly_covered"
    /\ gaps.out[1].ClosestScore = [num |-> 1, den |-> 5]
    /\ gaps.out[2].Domain = Backend
    /\ gaps.out[2].Verdict = "uncovered"
    /\ gaps.out[2].ClosestScore = [num |-> 19, den |-> 100]

(* Helpers of the overall-score claim: the issues of a severity. *)
IssuesOf(severity) ==
    { i \in 1..Len(overall.issues) : overall.issues[i].Severity = severity }

(* C21: the overall score is max(0, 1 - 0.2 E - 0.05 W) for E error and
   W warning issues, lies in [0, 1], is 1 without errors and warnings, and
   is the same with the info issues removed or with one more of them. *)
C21_OverallScore ==
    overall.pc = "returned" =>
        LET E == Cardinality(IssuesOf("error"))
            W == Cardinality(IssuesOf("warning"))
            x == overall.out
            twentieths == IF 20 - 4 * E - W > 0 THEN 20 - 4 * E - W ELSE 0
        IN  /\ x.den > 0
            /\ x.num * 20 = twentieths * x.den
            /\ 0 <= x.num /\ x.num <= x.den
            /\ (E = 0 /\ W = 0) => x = [num |-> 1, den |-> 1]
            /\ x = OverallScore(SelectSeq(overall.issues, LAMBDA i : i.Severity # "info"))
            /\ x = OverallScore(Append(overall.issues, [Severity |-> "info"]))

C21_Witness ==
    /\ overall.pc = "returned"
    /\ Cardinality(IssuesOf("error")) = 1
    /\ Cardinality(IssuesOf("warning")) = 1
    /\ Cardinality(IssuesOf("info")) = 2
    /\ overall.out = [num |-> 3, den |-> 4]

(* Helpers of the mutex claim: the task that takes the step, and the
   positions in which a task is inside a Complete call or the delay. *)
Steps(t) == pc'[t] # pc[t]

OutsideCriticalSection(t) == InFlight(t) \/ pc[t] = "sleeping"

(* C22: a step that changes the results, the total-call counter or the
   completed counter, or that hands the completed counter to the progress
   callback, is a step of the task that holds the mutex; the holder is
   never inside a Complete call or the delay; the dispatcher builds its
   report only when every task has exited and the mutex is free. *)
C22_SharedStateUnderMutex ==
    /\ [][(\/ results' # results
           \/ totalCalls' # totalCalls
           \/ completed' # completed
           \/ progressLog' # progressLog) =>
             (mu \in Tasks /\ Steps(mu) /\ \A u \in Tasks \ {mu} : ~Steps(u))]_vars
    /\ [](\A t \in Tasks : OutsideCriticalSection(t) => mu # t)
    /\ [](dpc \in {"score", "done"} => (mu = 0 /\ \A t \in KnownTasks : pc[t] = "exit"))
    /\ [][report' # report =>
             (dpc = "score" /\ totalCalls' = totalCalls /\ results' = results)]_vars

C22_Witness ==
    \E t, u \in Tasks :
        /\ pc[t] = "st_count"
        /\ mu = t
        /\ pc[u] = "fin_lock"
        /\ totalCalls > 0

(* C23: ScoreAgentProbes on a result without details changes nothing: the
   four scores, ProbesRun and Details keep the values they had before the
   call, which are 0 for a fresh result. *)
C23_EmptyDetailsUnchanged ==
    (scoring.pc = "returned" /\ Len(scoring.results.Details) = 0) =>
        /\ scoring.out.BoundaryScore = scoring.results.BoundaryScore
        /\ scoring.out.CalibrationScore = scoring.results.CalibrationScore
        /\ scoring.out.RefusalHealth = scoring.results.RefusalHealth
        /\ scoring.out.ConsistencyScore = scoring.results.ConsistencyScore
        /\ scoring.out.ProbesRun = scoring.results.ProbesRun
        /\ scoring.out.Details = <<>>
        /\ scoring.results = FreshResults(<<>>) =>
              \A f \in ScoreFields : scoring.out[f] = [num |-> 0, den |-> 1]

C23_Witness ==
    /\ scoring.pc = "returned"
    /\ Len(scoring.results.Details) = 0
    /\ scoring.results.BoundaryScore = [num |-> 1, den |-> 2]
    /\ scoring.results.ConsistencyScore = [num |-> 1, den |-> 1]
    /\ scoring.results.ProbesRun = 1
    /\ scoring.out = scoring.results

(* C24: a fault of the progress callback at the end of a probe task is
   contained: a task never enters its recover handler holding the mutex,
   the process does not end, RunLiveProbes returns with every task exited,
   and the probe has exactly one ProbeDetail, counted once in ProbesRun. *)
C24_ProgressFaultContained ==
    /\ [](\A t \in Tasks : pc[t] = "recover" => mu # t)
    /\ [](dpc # "crashed")
    /\ <>Terminated
    /\ [](dpc = "done" =>
            /\ \A t \in KnownTasks :
                  Cardinality(DetailsWithID(questions[t].TargetAgent, questions[t].ID)) = 1
            /\ \A a \in agentIDs : results[a].ProbesRun = Len(DetailsOf(a)))

(* Helpers of the call-counter claim: the Complete calls of a task that
   have returned a response or an error (those it has recorded, and the one
   it is about to count), and the response records of all details. *)
AwaitingCount(t) == pc[t] \in {"det_lock", "det_count", "st_lock", "st_count"}

ReturnedCalls == SumSeq([t \in Tasks |-> Len(responses[t]) + (IF AwaitingCount(t) THEN 1 ELSE 0)])

CountedCalls == SumSeq([t \in Tasks |-> Len(responses[t])])

RecordedResponses(a) == SumSeq([k \in 1..Len(DetailsOf(a)) |-> Len(DetailsOf(a)[k].Responses)])

RECURSIVE RecordedIn(_)
RecordedIn(as) ==
    IF as = {} THEN 0
    ELSE LET a == CHOOSE x \in as : TRUE IN RecordedResponses(a) + RecordedIn(as \ {a})

BudgetOf == Len(questions) * (1 + cfg.StochasticRuns)

(* C25, as stated: in every reachable state the total-call counter equals
   the number of Complete calls that have returned. *)
C25_CounterEqualsReturned == totalCalls = ReturnedCalls

(* C25, amended: the counter equals the number of returned Complete calls
   that their task has counted; it is behind the number of returned calls by
   the number of tasks between the return and their totalCalls++, which is
   at most cfg.Concurrency, and by nothing once all tasks have finished;
   it never exceeds len(questions) * (1 + StochasticRuns); when no task
   faulted the reported TotalCalls is the number of ResponseRecords of all
   details, and the reported Budget is that product. *)
C25_CounterFollowsReturned ==
    /\ totalCalls = CountedCalls
    /\ ReturnedCalls - totalCalls = Cardinality({ t \in Tasks : AwaitingCount(t) })
    /\ ReturnedCalls - totalCalls <= cfg.Concurrency
    /\ dpc \in {"score", "done"} => totalCalls = ReturnedCalls
    /\ dpc # "defaults" => totalCalls <= BudgetOf
    /\ dpc = "done" =>
          /\ report.TotalCalls = totalCalls
          /\ report.Budget = BudgetOf
          /\ (\A d \in AllDetails : ~IsPanicDetail(d)) =>
                report.TotalCalls = RecordedIn(agentIDs)

C25_Witness ==
    \E t, u \in Tasks :
        /\ pc[t] = "st_lock"
        /\ mu = u
        /\ pc[u] = "det_count"
        /\ ret[t] = "err"
        /\ totalCalls = 1
        /\ ReturnedCalls = 3

(* Helpers of the sequential-run claim: the probe IDs of a list in the
   order of the list, and the tasks whose progress callback was called. *)
Ascending(ids) == \A j, k \in 1..Len(ids) : j < k => ids[j] < ids[k]

DetailIDs(a) == [k \in 1..Len(DetailsOf(a)) |-> DetailsOf(a)[k].ProbeID]

ProgressIDs == [k \in 1..Len(progressLog) |-> progressLog[k].probeID]

Finished(u) ==
    /\ pc[u] = "exit"
    /\ DetailsWithID(questions[u].TargetAgent, questions[u].ID) # {}
    /\ hasProgress => \E k \in 1..Len(progressLog) : progressLog[k].probeID = questions[u].ID

Sequential == cfg.Concurrency = 1 /\ dpc # "defaults"

(* C26: with Concurrency = 1 at most one task runs at a time, a task has
   started only when every earlier executed probe has its ProbeDetail
   appended, its progress callback returned and its slot released, and so
   each agent's Details and the progress callbacks are in submission order;
   an order other than the submission order needs Concurrency > 1. *)
C26_SequentialAtOne ==
    /\ Sequential =>
          /\ Cardinality({ t \in Tasks : Started(t) }) <= 1
          /\ \A t \in KnownTasks :
                pc[t] # "pending" => \A u \in KnownTasks : u < t => Finished(u)
          /\ \A a \in agentIDs : Ascending(DetailIDs(a))
          /\ Ascending(ProgressIDs)
    /\ ((\E a \in agentIDs : ~Ascending(DetailIDs(a))) \/ ~Ascending(ProgressIDs)) =>
          cfg.Concurrency > 1

C26_Witness ==
    /\ Sequential
    /\ Cardinality(KnownTasks) = 2
    /\ pc[1] = "exit"
    /\ pc[2] = "det_wait"
    /\ questions[1].TargetAgent = questions[2].TargetAgent
    /\ IsPanicDetail(DetailsOf(questions[1].TargetAgent)[1])
    /\ ProgressIDs = <<1>>

(* C27: the total passed to the progress callback is the number of probes
   that are executed, so the last progress call of a run that executed a
   probe reports done = total; the questions of unknown agents count neither
   in that total nor in the reported Budget. *)
C27_TotalIsExecuted ==
    /\ \A k \in 1..Len(progressLog) : progressLog[k].total = Cardinality(KnownTasks)
    /\ (dpc = "done" /\ hasProgress /\ KnownTasks # {}) =>
          /\ Len(progressLog) > 0
          /\ progressLog[Len(progressLog)].done = progressLog[Len(progressLog)].total
    /\ dpc = "done" => report.Budget = Cardinality(KnownTasks) * (1 + cfg.StochasticRuns)

(* Helpers of the duplicate claim: the agents whose claimed domains are
   pairwise distinct after normalisation, those left with the generic
   fallback, and the probes of the result that put a question to an agent. *)
DistinctClaims(agent) ==
    \A i, j \in 1..Len(agent.ClaimedDomains) :
        Normalize(agent.ClaimedDomains[i]) = Normalize(agent.ClaimedDomains[j]) => i = j

GenericOnly(i) == Len(gen.agents[i].ClaimedDomains) = 0 /\ gen.inferred[i] = <<Generic>>

ProbesWith(id, text) ==
    { k \in 1..Len(gen.out.probes) :
        gen.out.probes[k].TargetAgent = id /\ gen.out.probes[k].Text = text }

(* C28: with claimed domains that are pairwise distinct after normalisation
   no two probes of the result have the same target agent and the same
   question text; an agent left with the generic fallback gets each of the
   three generic questions exactly once when nothing is truncated; the
   probe IDs are pairwise distinct. *)
C28_NoDuplicateProbes ==
    (gen.pc = "returned" /\ ~gen.out.panic) =>
        LET R == gen.out.probes IN
        /\ (\A i \in 1..Len(gen.agents) : DistinctClaims(gen.agents[i])) =>
              \A j, k \in 1..Len(R) :
                  (R[j].TargetAgent = R[k].TargetAgent /\ R[j].Text = R[k].Text) => j = k
        /\ Len(R) = Len(Generated) =>
              \A i \in 1..Len(gen.agents) :
                  GenericOnly(i) =>
                      \A q \in 1..Len(BoundaryQuestions[Generic]) :
                          Cardinality(ProbesWith(gen.agents[i].ID,
                                                 BoundaryQuestions[Generic][q].question)) = 1
        /\ \A j, k \in 1..Len(R) : R[j].ID = R[k].ID => j = k

(* C29: GenerateProbes is deterministic: every call with the agents and the
   budget of this call returns the probes this call returned, same IDs,
   texts, target agents and types in the same order, whatever the agents'
   texts mention and whether or not the budget truncates. *)
C29_GenerateDeterministic ==
    gen.pc = "returned" =>
        \A inferred \in InferredLists(gen.agents) :
            GenerateProbes(gen.agents, gen.budget, inferred) = gen.out

(* C30: GenerateProbes returns a probe list without a fault for every
   budget, zero and negative ones and an empty agent list included, and the
   list is empty for a budget below 6. *)
C30_EveryBudgetReturns ==
    gen.pc = "returned" =>
        /\ ~gen.out.panic
        /\ gen.budget < 6 => gen.out.probes = <<>>

====
